---- MODULE Spec2Model ----
(***************************************************************************)
(* A model of PyBaMM's expression-tree-to-code compiler                    *)
(* (pybamm/expression_tree/operations/evaluate.py, evaluate_julia.py) and  *)
(* of InputParameter (pybamm/expression_tree/input_parameter.py).          *)
(*                                                                         *)
(* An expression tree is a table of nodes (children before parents, so a   *)
(* node shared by two parents is one entry).  Generated source text is a   *)
(* sequence of lines, a line a sequence of pieces: the literal text of the *)
(* format string and the values formatted into it.  The text itself is the *)
(* concatenation of the pieces (Text).                                     *)
(***************************************************************************)
EXTENDS Integers, Sequences, FiniteSets, TLC

\* ------------------------------------------------------------------ bounds
\* length of the state vector y
NY == 3
\* entries of y, and t, range over 0..MaxVal
MaxVal == 1
\* number of nodes of an expression tree
MaxNodes == 3

\* --------------------------------------------------------- runtime values
\* Every value is a record [ty, v]: a number, a column array, a (scipy)
\* sparse matrix given by its rows, a 1-d integer index array, a callable,
\* None, or a raised exception.
Num(n) == [ty |-> "num", v |-> n]
Arr(s) == [ty |-> "arr", v |-> s]
\* an array of one dimension, shape (n,)
Arr1(s) == [ty |-> "arr1", v |-> s]
\* an array of the given shape, its entries in row-major order
NdArray(shape, s) == [ty |-> "ndarray", shape |-> shape, v |-> s]
Sparse(rows) == [ty |-> "sparse", v |-> rows]
IdxArr(s) == [ty |-> "idx", v |-> s]
Callable(f) == [ty |-> "fn", v |-> f]
None == [ty |-> "NoneType", v |-> 0]
Err(e) == [ty |-> "err", v |-> e]
IsErr(x) == x.ty = "err"

Min2(a, b) == IF a <= b THEN a ELSE b
Max2(a, b) == IF a >= b THEN a ELSE b
Abs(a) == IF a < 0 THEN -a ELSE a

\* numpy broadcasting of an elementwise binary operator over numbers and
\* column arrays ((n,1) with (n,1), (1,1) or a scalar)
Broadcast(Op(_, _), a, b) ==
  CASE IsErr(a) -> a
    [] IsErr(b) -> b
    [] a.ty = "num" /\ b.ty = "num" -> Num(Op(a.v, b.v))
    [] a.ty = "num" /\ b.ty = "arr" -> Arr([i \in 1..Len(b.v) |-> Op(a.v, b.v[i])])
    [] a.ty = "arr" /\ b.ty = "num" -> Arr([i \in 1..Len(a.v) |-> Op(a.v[i], b.v)])
    [] a.ty = "arr" /\ b.ty = "arr" ->
         IF Len(a.v) = Len(b.v)
         THEN Arr([i \in 1..Len(a.v) |-> Op(a.v[i], b.v[i])])
         ELSE IF Len(a.v) = 1
         THEN Arr([i \in 1..Len(b.v) |-> Op(a.v[1], b.v[i])])
         ELSE IF Len(b.v) = 1
         THEN Arr([i \in 1..Len(a.v) |-> Op(a.v[i], b.v[1])])
         ELSE Err("ValueError")
    [] OTHER -> Err("TypeError")

RECURSIVE SumSeq(_)
SumSeq(s) == IF s = <<>> THEN 0 ELSE Head(s) + SumSeq(Tail(s))

\* sparse (m x n) @ column (n) -> column (m)
MatMul(a, b) ==
  CASE IsErr(a) -> a
    [] IsErr(b) -> b
    [] a.ty = "sparse" /\ b.ty = "arr" ->
         IF a.v # <<>> /\ Len(a.v[1]) = Len(b.v)
         THEN Arr([r \in 1..Len(a.v) |->
                     SumSeq([c \in 1..Len(b.v) |-> a.v[r][c] * b.v[c]])])
         ELSE Err("ValueError")
    [] OTHER -> Err("ValueError")

\* scipy's sparse.multiply(x) for a number x, and for a column x of as many
\* rows as the matrix, which is broadcast over the columns of the matrix
SparseMultiply(a, b) ==
  CASE IsErr(a) -> a
    [] IsErr(b) -> b
    [] a.ty = "sparse" /\ b.ty = "num" ->
         Sparse([r \in 1..Len(a.v) |-> [c \in 1..Len(a.v[r]) |-> a.v[r][c] * b.v]])
    [] a.ty = "sparse" /\ b.ty = "arr" /\ Len(b.v) = Len(a.v) ->
         Sparse([r \in 1..Len(a.v) |-> [c \in 1..Len(a.v[r]) |-> a.v[r][c] * b.v[r]]])
    [] a.ty # "sparse" -> Err("AttributeError")
    [] OTHER -> Err("ValueError")

\* the python operators of the generated source and of the tree's own evaluate
Add(a, b) == Broadcast(LAMBDA x, z : x + z, a, b)
Sub(a, b) == Broadcast(LAMBDA x, z : x - z, a, b)
Mul(a, b) == Broadcast(LAMBDA x, z : x * z, a, b)
Minimum(a, b) == Broadcast(Min2, a, b)
Maximum(a, b) == Broadcast(Max2, a, b)

Neg(a) ==
  CASE IsErr(a) -> a
    [] a.ty = "num" -> Num(-a.v)
    [] a.ty = "arr" -> Arr([i \in 1..Len(a.v) |-> -a.v[i]])
    [] a.ty = "sparse" ->
         Sparse([r \in 1..Len(a.v) |-> [c \in 1..Len(a.v[r]) |-> -a.v[r][c]]])
    [] OTHER -> Err("TypeError")

\* x[lo:hi] on a column or 1-d array, python's 0-based half-open slice
\* (0 <= lo, hi)
Slice(a, lo, hi) ==
  CASE IsErr(a) -> a
    [] a.ty = "arr" -> Arr(SubSeq(a.v, lo + 1, Min2(hi, Len(a.v))))
    [] a.ty = "arr1" -> Arr1(SubSeq(a.v, lo + 1, Min2(hi, Len(a.v))))
    [] OTHER -> Err("TypeError")

\* x[idx] for a 1-d integer index array idx (0-based)
Take(a, idx) ==
  CASE IsErr(a) -> a
    [] a.ty = "arr" /\ idx.ty = "idx" ->
         IF \A k \in 1..Len(idx.v) : idx.v[k] < Len(a.v)
         THEN Arr([k \in 1..Len(idx.v) |-> a.v[idx.v[k] + 1]])
         ELSE Err("IndexError")
    [] a.ty = "arr1" /\ idx.ty = "idx" ->
         IF \A k \in 1..Len(idx.v) : idx.v[k] < Len(a.v)
         THEN Arr1([k \in 1..Len(idx.v) |-> a.v[idx.v[k] + 1]])
         ELSE Err("IndexError")
    [] OTHER -> Err("TypeError")

RECURSIVE FlattenArrs(_)
FlattenArrs(vs) ==
  IF vs = <<>> THEN <<>> ELSE Head(vs).v \o FlattenArrs(Tail(vs))

\* np.concatenate of column arrays; scipy.sparse.vstack of sparse matrices
NpConcatenate(vs) ==
  CASE \E k \in 1..Len(vs) : IsErr(vs[k]) ->
         vs[CHOOSE k \in 1..Len(vs) : IsErr(vs[k]) /\ \A j \in 1..(k - 1) : ~IsErr(vs[j])]
    [] vs = <<>> -> Err("ValueError")
    [] \A k \in 1..Len(vs) : vs[k].ty = "arr" -> Arr(FlattenArrs(vs))
    [] OTHER -> Err("ValueError")

SparseVstack(vs) ==
  CASE \E k \in 1..Len(vs) : IsErr(vs[k]) ->
         vs[CHOOSE k \in 1..Len(vs) : IsErr(vs[k]) /\ \A j \in 1..(k - 1) : ~IsErr(vs[j])]
    [] vs = <<>> -> Err("ValueError")
    [] /\ \A k \in 1..Len(vs) : vs[k].ty = "sparse" /\ vs[k].v # <<>>
       /\ \A k \in 1..Len(vs) : Len(vs[k].v[1]) = Len(vs[1].v[1]) ->
         Sparse(FlattenArrs(vs))
    [] OTHER -> Err("ValueError")

\* the functions a Function node wraps: np.abs (a numpy ufunc) and a user
\* callable, x -> x + 1 elementwise
CallFunction(f, a) ==
  CASE IsErr(a) -> a
    [] f = "absolute" /\ a.ty = "num" -> Num(Abs(a.v))
    [] f = "absolute" /\ a.ty = "arr" -> Arr([i \in 1..Len(a.v) |-> Abs(a.v[i])])
    [] f = "myfunction" /\ a.ty = "num" -> Num(a.v + 1)
    [] f = "myfunction" /\ a.ty = "arr" -> Arr([i \in 1..Len(a.v) |-> a.v[i] + 1])
    [] OTHER -> Err("TypeError")

\* ------------------------------------------------------- evaluation inputs
\* `inputs` as passed to evaluate: a dict (its keys, all mapped to val), or a
\* value of another type
Inputs(ty, keys, val) == [ty |-> ty, keys |-> keys, val |-> val]

\* python's inputs[name]
Subscript(inputs, name) ==
  CASE inputs.ty = "dict" ->
         IF name \in inputs.keys THEN Num(inputs.val) ELSE Err("KeyError")
    [] inputs.ty = "ndarray" -> Err("IndexError")
    [] OTHER -> Err("TypeError")

\* for InputParameter.evaluate
InputParameter_evaluate(name, u) ==
  IF u.ty # "dict" THEN Err("TypeError") ELSE Subscript(u, name)

\* -------------------------------------------------------- expression trees
\* A node of the tree: its class (kind), its children (indices of earlier
\* nodes of the table), symbol.name, and what its class adds: the value of
\* a Scalar/Vector/Matrix, the evaluation_array of a StateVector (mask, the
\* 0-based true indices), the slice of an Index (lo, hi), whether the
\* function of a Function is a numpy ufunc, and for a DomainConcatenation
\* secondary_dimensions_npts, _children_slices and _slices (dc).
\* symbol.name of the operators
OpName(kind) ==
  CASE kind = "Addition" -> "+"
    [] kind = "Subtraction" -> "-"
    [] kind = "Multiplication" -> "*"
    [] kind = "Division" -> "/"
    [] kind = "Inner" -> "inner product"
    [] kind = "Power" -> "**"
    [] kind = "MatrixMultiplication" -> "@"
    [] kind = "Minimum" -> "minimum"
    [] kind = "Maximum" -> "maximum"
    [] kind = "Negate" -> "-"
    [] OTHER -> kind

NoDC == [npts |-> 0, cs |-> <<>>, sl |-> <<>>]
NoVal == [ty |-> "none", v |-> 0]
Node(kind, children, name, val, mask, lo, hi, ufunc, dc) ==
  [kind |-> kind, children |-> children, name |-> name, val |-> val,
   mask |-> mask, lo |-> lo, hi |-> hi, ufunc |-> ufunc, dc |-> dc]
Leaf(kind, name) == Node(kind, <<>>, name, NoVal, {}, 0, 0, FALSE, NoDC)
OpNode(kind, children) == Node(kind, children, OpName(kind), NoVal, {}, 0, 0, FALSE, NoDC)

Scalar(n) == Node("Scalar", <<>>, ToString(n), Num(n), {}, 0, 0, FALSE, NoDC)
Vector(s) == Node("Vector", <<>>, "Column vector", Arr(s), {}, 0, 0, FALSE, NoDC)
Matrix(rows) == Node("Matrix", <<>>, "Sparse Matrix", Sparse(rows), {}, 0, 0, FALSE, NoDC)
StateVector(mask) == Node("StateVector", <<>>, "y", NoVal, mask, 0, 0, FALSE, NoDC)
Time == Leaf("Time", "time")
InputParameter(name) == Leaf("InputParameter", name)
Variable(name) == Leaf("Variable", name)
Index(child, lo, hi) == Node("Index", <<child>>, "Index", NoVal, {}, lo, hi, FALSE, NoDC)
Function(f, isufunc, child) ==
  Node("Function", <<child>>, f, NoVal, {}, 0, 0, isufunc, NoDC)
DomainConcatenation(children, dc) ==
  Node("DomainConcatenation", children, "domain concatenation", NoVal, {}, 0, 0, FALSE, dc)

BinaryOperators ==
  {"Addition", "Subtraction", "Multiplication", "Division", "Inner", "Power",
   "MatrixMultiplication", "Minimum", "Maximum"}
UnaryOperators == {"Negate", "Index"}
Concatenations ==
  {"NumpyConcatenation", "SparseStack", "DomainConcatenation", "Concatenation"}

\* the structural id of a node: nodes of the table differ in structure, so
\* each has its own; ids are hashes, of either sign and of any size
IdPool == <<3, -7, 12345, 123456, 42, -1, 99999, 100000>>
SymbolId(s) == IdPool[s]

\* symbol.is_constant(): no state vector, time, input or variable below
RECURSIVE is_constant(_, _)
is_constant(nodes, s) ==
  /\ nodes[s].kind \notin {"StateVector", "Time", "InputParameter", "Variable"}
  /\ \A k \in 1..Len(nodes[s].children) : is_constant(nodes, nodes[s].children[k])

\* the true indices of a mask in ascending order (np.argwhere), 0-based
RECURSIVE Ascending(_)
Ascending(S) ==
  IF S = {} THEN <<>>
  ELSE LET m == CHOOSE x \in S : \A z \in S : x <= z
       IN <<m>> \o Ascending(S \ {m})

\* symbol.evaluate(t, y, inputs), the tree's own evaluation, and (shape)
\* symbol.evaluate_for_shape(), where only types and extents count.  The
\* quotient of a Division and a Power are not integers: only their shape is
\* modelled.
Product(a, b) ==
  IF a.ty = "sparse" THEN SparseMultiply(a, b)
  ELSE IF b.ty = "sparse" THEN SparseMultiply(b, a)
  ELSE Mul(a, b)

\* the value of node n, cs the values of its children
EvalNode(n, cs, t, y, inputs, shape) ==
  CASE n.kind \in {"Scalar", "Vector", "Matrix"} -> n.val
    [] n.kind = "Time" -> Num(t)
    [] n.kind = "StateVector" -> Take(Arr(y), IdxArr(Ascending(n.mask)))
    [] n.kind = "InputParameter" ->
         IF shape THEN Num(0) ELSE InputParameter_evaluate(n.name, inputs)
    [] n.kind = "Addition" -> Add(cs[1], cs[2])
    [] n.kind = "Subtraction" -> Sub(cs[1], cs[2])
    [] n.kind \in {"Multiplication", "Inner"} -> Product(cs[1], cs[2])
    [] n.kind = "Division" -> IF shape THEN Product(cs[1], cs[2]) ELSE Err("NotModelled")
    [] n.kind = "Power" -> IF shape THEN Mul(cs[1], cs[2]) ELSE Err("NotModelled")
    [] n.kind = "MatrixMultiplication" -> MatMul(cs[1], cs[2])
    [] n.kind = "Minimum" -> Minimum(cs[1], cs[2])
    [] n.kind = "Maximum" -> Maximum(cs[1], cs[2])
    [] n.kind = "Negate" -> Neg(cs[1])
    [] n.kind = "Index" -> Slice(cs[1], n.lo, n.hi)
    [] n.kind = "Function" -> CallFunction(n.name, cs[1])
    [] n.kind = "NumpyConcatenation" -> NpConcatenate(cs)
    [] n.kind = "SparseStack" -> SparseVstack(cs)
    [] shape /\ n.kind = "Variable" -> Arr(<<0>>)
    [] shape /\ n.kind \in {"Concatenation", "DomainConcatenation"} -> NpConcatenate(cs)
    [] shape /\ n.kind = "Unsupported" -> cs[1]
    [] OTHER -> Err("NotImplementedError")

RECURSIVE Eval(_, _, _, _, _, _)
Eval(nodes, s, t, y, inputs, shape) ==
  EvalNode(nodes[s],
           [k \in 1..Len(nodes[s].children) |->
              Eval(nodes, nodes[s].children[k], t, y, inputs, shape)],
           t, y, inputs, shape)

evaluate(nodes, s, t, y, inputs) == Eval(nodes, s, t, y, inputs, FALSE)

\* the kinds whose evaluation over integers is modelled
Evaluable ==
  {"Scalar", "Vector", "Matrix", "Time", "StateVector", "InputParameter",
   "Addition", "Subtraction", "Multiplication", "Inner", "MatrixMultiplication",
   "Minimum", "Maximum", "Negate", "Index", "Function", "NumpyConcatenation",
   "SparseStack"}

DummyY == [i \in 1..NY |-> 0]
NoInputs == Inputs("NoneType", {}, 0)
evaluate_for_shape(nodes, s) == Eval(nodes, s, 0, DummyY, NoInputs, TRUE)

\* ------------------------------------------------------- generated source
\* A piece of generated text: literal text of a format string (lit), or a
\* value formatted into it: the name of a fragment (var) or of a constant
\* (const), a number (num), a dictionary key (key).  n is the id or number
\* the text s was formatted from.
Piece(k, s, n) == [k |-> k, s |-> s, n |-> n]
L(s) == Piece("lit", s, 0)

RECURSIVE Text(_)
Text(ps) == IF ps = <<>> THEN "" ELSE Head(ps).s \o Text(Tail(ps))

RECURSIVE NumDigits(_)
NumDigits(n) == IF n < 10 THEN 1 ELSE 1 + NumDigits(n \div 10)

RECURSIVE Zeros(_)
Zeros(k) == IF k <= 0 THEN "" ELSE "0" \o Zeros(k - 1)

\* "{:05d}".format(n): the sign, and the digits zero-padded to width 5
\* (the sign counts)
Format05d(n) ==
  IF n < 0
  THEN [sign |-> "-", digits |-> Zeros(4 - NumDigits(-n)) \o ToString(-n)]
  ELSE [sign |-> "", digits |-> Zeros(5 - NumDigits(n)) \o ToString(n)]

id_to_python_variable(symbol_id, constant) ==
  LET f == Format05d(symbol_id)
      prefix == IF constant THEN "const_" ELSE "var_"
  IN prefix \o (IF f.sign = "-" THEN "m" ELSE "") \o f.digits

VarName(symbol_id) ==
  Piece("var", id_to_python_variable(symbol_id, FALSE), symbol_id)
ConstName(symbol_id) ==
  Piece("const", id_to_python_variable(symbol_id, TRUE), symbol_id)
\* str(n) of an integer
StrNum(n) == Piece("num", ToString(n), n)

\* --------------------------------------------------------- python strings
\* s.startswith(p)
StartsWith(s, p) == Len(s) >= Len(p) /\ SubSeq(s, 1, Len(p)) = p

\* the places of s where p occurs
Occurrences(s, p) ==
  {i \in 1..(Len(s) - Len(p) + 1) : SubSeq(s, i, i + Len(p) - 1) = p}

\* p in s
Contains(s, p) == Occurrences(s, p) # {}

\* s.replace(old, new): every occurrence of old, from the left, without
\* overlap (old is not empty)
RECURSIVE Replace(_, _, _)
Replace(s, old, new) ==
  IF ~Contains(s, old) THEN s
  ELSE LET i == CHOOSE x \in Occurrences(s, old) : \A z \in Occurrences(s, old) : x <= z
       IN SubSeq(s, 1, i - 1) \o new
            \o Replace(SubSeq(s, i + Len(old), Len(s)), old, new)

\* ------------------------------------------------------------ OrderedDict
\* an OrderedDict is the sequence of its items in insertion order
DictKeys(d) == [i \in 1..Len(d) |-> d[i].k]
DictHas(d, key) == \E i \in 1..Len(d) : d[i].k = key
DictGet(d, key) == d[CHOOSE i \in 1..Len(d) : d[i].k = key].v
\* a faulty d[key] = value, which moves an old key to the end
DictSetMovesToEnd(d, key, value) ==
  Append(SelectSeq(d, LAMBDA item : item.k # key), [k |-> key, v |-> value])

\* a faulty d[key] = value, which appends whether or not the key is there
DictSetAppends(d, key, value) == Append(d, [k |-> key, v |-> value])

\* d[key] = value: a new key is appended, an old key keeps its place
DictSet(d, key, value) ==
  IF DictHas(d, key)
  THEN [i \in 1..Len(d) |-> IF d[i].k = key THEN [k |-> key, v |-> value] ELSE d[i]]
  ELSE Append(d, [k |-> key, v |-> value])

\* ------------------------------------------------------------ find_symbols
NoExc == [type |-> "", msg |-> ""]
Exc(type, msg) == [type |-> type, msg |-> msg]

\* the result of the branch of find_symbols for one node: the exception it
\* raised, or symbol_str and the constants it stored
Str(ps) == [exc |-> NoExc, str |-> ps, consts |-> <<>>]
Raise(type, msg) == [exc |-> Exc(type, msg), str |-> <<>>, consts |-> <<>>]

issparse(v) == v.ty = "sparse"

\* ",".join / ", ".join of names
RECURSIVE Join(_, _)
Join(sep, items) ==
  IF items = <<>> THEN <<>>
  ELSE IF Len(items) = 1 THEN items[1]
  ELSE items[1] \o <<L(sep)>> \o Join(sep, Tail(items))

Singletons(names) == [i \in 1..Len(names) |-> <<names[i]>>]

\* pybamm.Array(indices).id: the id of the index array of a scattered
\* state vector, a hash of its entries
ArrayId(indices) == 500 + SumSeq([i \in 1..Len(indices) |-> 2 ^ indices[i]])

\* ---------------------------------------------- ordering of python strings
\* the characters of a piece, for python's comparison of strings
Digit(d) == <<"0", "1", "2", "3", "4", "5", "6", "7", "8", "9">>[d + 1]

RECURSIVE DigitChars(_)
DigitChars(n) ==
  IF n < 10 THEN <<Digit(n)>> ELSE DigitChars(n \div 10) \o <<Digit(n % 10)>>

ZeroChars(k) == [i \in 1..Max2(k, 0) |-> "0"]

Format05dChars(n) ==
  IF n < 0
  THEN <<"m">> \o ZeroChars(4 - NumDigits(-n)) \o DigitChars(-n)
  ELSE ZeroChars(5 - NumDigits(n)) \o DigitChars(n)

PieceChars(p) ==
  CASE p.k = "var" -> <<"v", "a", "r", "_">> \o Format05dChars(p.n)
    [] p.k = "const" -> <<"c", "o", "n", "s", "t", "_">> \o Format05dChars(p.n)
    [] p.k = "num" -> (IF p.n < 0 THEN <<"-">> ELSE <<>>) \o DigitChars(Abs(p.n))
    [] OTHER -> <<p.s>>

RECURSIVE Chars(_)
Chars(ps) == IF ps = <<>> THEN <<>> ELSE PieceChars(Head(ps)) \o Chars(Tail(ps))

\* the code point of a character
Ord(ch) ==
  CASE ch = "-" -> 45
    [] ch \in {"0", "1", "2", "3", "4", "5", "6", "7", "8", "9"} ->
         48 + (CHOOSE d \in 0..9 : Digit(d) = ch)
    [] ch = " " -> 32
    [] ch = ":" -> 58
    [] ch = "@" -> 64
    [] ch = "[" -> 91
    [] ch = "]" -> 93
    [] ch = "_" -> 95
    [] ch = "a" -> 97
    [] ch = "c" -> 99
    [] ch = "e" -> 101
    [] ch = "h" -> 104
    [] ch = "i" -> 105
    [] ch = "m" -> 109
    [] ch = "n" -> 110
    [] ch = "o" -> 111
    [] ch = "r" -> 114
    [] ch = "s" -> 115
    [] ch = "t" -> 116
    [] ch = "v" -> 118
    [] ch = "w" -> 119
    [] OTHER -> 0

\* a < b for python strings
RECURSIVE StrLess(_, _)
StrLess(a, b) ==
  IF b = <<>> THEN FALSE
  ELSE IF a = <<>> THEN TRUE
  ELSE IF Ord(Head(a)) # Ord(Head(b)) THEN Ord(Head(a)) < Ord(Head(b))
  ELSE StrLess(Tail(a), Tail(b))

\* a < b for the tuples (slice start, child vector) that sorted() compares
TupleLess(a, b) ==
  \/ a.key < b.key
  \/ a.key = b.key /\ StrLess(Chars(a.vec), Chars(b.vec))

RECURSIVE Insert(_, _)
Insert(x, sorted) ==
  IF sorted = <<>> THEN <<x>>
  ELSE IF TupleLess(x, Head(sorted)) THEN <<x>> \o sorted
  ELSE <<Head(sorted)>> \o Insert(x, Tail(sorted))

\* sorted(tuples): stable, ascending
RECURSIVE Sorted(_)
Sorted(tuples) ==
  IF tuples = <<>> THEN <<>>
  ELSE Insert(tuples[Len(tuples)], Sorted(SubSeq(tuples, 1, Len(tuples) - 1)))

RECURSIVE Flatten(_)
Flatten(ss) == IF ss = <<>> THEN <<>> ELSE Head(ss) \o Flatten(Tail(ss))

\* ------------------------------------- find_symbols: DomainConcatenation
\* one pass of the loops over zip(children_vars, symbol._children_slices)
\* and slices.items() for repetition i (0-based): for each child and each of
\* its domains, the start appended to slice_starts and the child vector
ChildEntries(children_vars, dc, i) ==
  Flatten([k \in 1..Min2(Len(children_vars), Len(dc.cs)) |->
    [j \in 1..Len(dc.cs[k]) |->
      [start |-> dc.sl[dc.cs[k][j].dom][i + 1].start,
       vec |-> <<children_vars[k], L("["), StrNum(dc.cs[k][j].sl[i + 1].start),
                 L(":"), StrNum(dc.cs[k][j].sl[i + 1].stop), L("]")>>]]])

\* the child vectors appended to all_child_vectors by repetitions i, i+1, ...
\* slice_starts is created once, before the loop over the repetitions, and
\* child_vectors in each repetition
RECURSIVE DomainRepetitions(_, _, _, _)
DomainRepetitions(children_vars, dc, i, slice_starts0) ==
  IF i >= dc.npts THEN <<>>
  ELSE LET entries == ChildEntries(children_vars, dc, i)
           slice_starts == slice_starts0 \o [k \in 1..Len(entries) |-> entries[k].start]
           child_vectors == [k \in 1..Len(entries) |-> entries[k].vec]
           zipped == [k \in 1..Min2(Len(slice_starts), Len(child_vectors)) |->
                        [key |-> slice_starts[k], vec |-> child_vectors[k]]]
           sorted == Sorted(zipped)
       IN [k \in 1..Len(sorted) |-> sorted[k].vec]
            \o DomainRepetitions(children_vars, dc, i + 1, slice_starts)

DomainConcatenationStr(children_vars, dc) ==
  LET all_child_vectors == DomainRepetitions(children_vars, dc, 0, <<>>)
  IN IF Len(children_vars) > 1 \/ dc.npts > 1
     THEN <<L("np.concatenate((")>> \o Join(",", all_child_vectors) \o <<L("))")>>
     ELSE Join(",", Singletons(children_vars))

\* ------------------------------------------------- find_symbols (evaluate.py)
\* JaxCooMatrix(row, col, data, shape)
JaxCooMatrix(row, col, data, shape) ==
  [ty |-> "coo",
   v |-> [row |-> row, col |-> col, data |-> data, shape |-> shape, nnz |-> Len(data)]]

\* value.tocoo(): the non-zero entries, row by row; indices are 0-based
tocoo(value) ==
  LET m == Len(value.v)
      n == IF m = 0 THEN 0 ELSE Len(value.v[1])
      cells == Flatten([r \in 1..m |-> [c \in 1..n |-> <<r, c>>]])
      nz == SelectSeq(cells, LAMBDA rc : value.v[rc[1]][rc[2]] # 0)
  IN JaxCooMatrix([k \in 1..Len(nz) |-> nz[k][1] - 1],
                  [k \in 1..Len(nz) |-> nz[k][2] - 1],
                  [k \in 1..Len(nz) |-> value.v[nz[k][1]][nz[k][2]]],
                  <<m, n>>)

\* symbol.evaluate() of a constant symbol
Fold(nodes, s) == evaluate(nodes, s, 0, DummyY, NoInputs)

\* the name of a child from child.id, child.is_constant() and, for a constant
\* child, child_eval = child.evaluate()
ChildName(child_id, constant, child_eval) ==
  IF constant
  THEN IF child_eval.ty = "num" THEN StrNum(child_eval.v) ELSE ConstName(child_id)
  ELSE VarName(child_id)

\* a faulty ChildVar, which names every child as a fragment
ChildVarAlwaysVar(nodes, child) == VarName(SymbolId(child))

\* the name a parent uses for its child
ChildVar(nodes, child) ==
  ChildName(SymbolId(child), is_constant(nodes, child), Fold(nodes, child))

\* a faulty StateVectorStr, whose slice stops at the last index
StateVectorStrStopsShort(mask) ==
  LET indices == Ascending(mask)
      consecutive == \A k \in 1..(Len(indices) - 1) : indices[k + 1] - indices[k] = 1
  IN IF Len(indices) = 1 \/ consecutive
     THEN IF indices = <<>> THEN Raise("IndexError", "")
          ELSE Str(<<L("y["), StrNum(indices[1]), L(":"),
                     StrNum(indices[Len(indices)]), L("]")>>)
     ELSE [exc |-> NoExc,
           str |-> <<L("y["), ConstName(ArrayId(indices)), L("]")>>,
           consts |-> <<[k |-> ArrayId(indices), v |-> IdxArr(indices)]>>]

\* a faulty StateVectorStr, which always makes an index array
StateVectorStrAlwaysArray(mask) ==
  LET indices == Ascending(mask)
  IN [exc |-> NoExc,
      str |-> <<L("y["), ConstName(ArrayId(indices)), L("]")>>,
      consts |-> <<[k |-> ArrayId(indices), v |-> IdxArr(indices)]>>]

StateVectorStr(mask) ==
  LET indices == Ascending(mask)
      consecutive == \A k \in 1..(Len(indices) - 1) : indices[k + 1] - indices[k] = 1
  IN IF Len(indices) = 1 \/ consecutive
     THEN IF indices = <<>> THEN Raise("IndexError", "")
          ELSE Str(<<L("y["), StrNum(indices[1]), L(":"),
                     StrNum(indices[Len(indices)] + 1), L("]")>>)
     ELSE [exc |-> NoExc,
           str |-> <<L("y["), ConstName(ArrayId(indices)), L("]")>>,
           consts |-> <<[k |-> ArrayId(indices), v |-> IdxArr(indices)]>>]

\* a.method(b)
Method(a, m, b) == Str(<<a, L(m), b, L(")")>>)

\* the branch of find_symbols for a binary operator n, given the names of its
\* children and the values of left.evaluate_for_shape() and
\* right.evaluate_for_shape()
BinaryOperatorBranch(n, c0, c1, dummy_eval_left, dummy_eval_right, no_sparse) ==
  CASE n.kind = "Multiplication" ->
         IF issparse(dummy_eval_left)
         THEN IF no_sparse THEN Method(c0, ".dot_product(", c1)
              ELSE Method(c0, ".multiply(", c1)
         ELSE IF issparse(dummy_eval_right)
         THEN IF no_sparse THEN Method(c1, ".dot_product(", c1)
              ELSE Method(c1, ".multiply(", c0)
         ELSE Str(<<c0, L(" * "), c1>>)
    [] n.kind = "Division" ->
         IF issparse(dummy_eval_left)
         THEN IF no_sparse THEN Raise("UnboundLocalError", "dummy_eval_right")
              ELSE Method(c0, ".multiply(1/", c1)
         ELSE Str(<<c0, L(" / "), c1>>)
    [] n.kind = "Inner" ->
         IF issparse(dummy_eval_left)
         THEN IF no_sparse THEN Method(c0, ".dot_product(", c1)
              ELSE Method(c0, ".multiply(", c1)
         ELSE IF issparse(dummy_eval_right)
         THEN IF no_sparse THEN Method(c0, ".dot_product(", c1)
              ELSE Method(c1, ".multiply(", c0)
         ELSE Str(<<c0, L(" * "), c1>>)
    [] n.kind = "Minimum" -> Str(<<L("np.minimum("), c0, L(","), c1, L(")")>>)
    [] n.kind = "Maximum" -> Str(<<L("np.maximum("), c0, L(","), c1, L(")")>>)
    [] OTHER -> Str(<<c0, L(" " \o n.name \o " "), c1>>)

BinaryOperatorStr(nodes, s, children_vars, no_sparse) ==
  BinaryOperatorBranch(nodes[s], children_vars[1], children_vars[2],
                       evaluate_for_shape(nodes, nodes[s].children[1]),
                       evaluate_for_shape(nodes, nodes[s].children[2]), no_sparse)

ConcatenationStr(n, children_vars, no_sparse) ==
  LET joined == Join(",", Singletons(children_vars))
  IN CASE n.kind = "NumpyConcatenation" ->
            IF Len(children_vars) > 1
            THEN Str(<<L("np.concatenate((")>> \o joined \o <<L("))")>>)
            ELSE Str(joined)
       [] n.kind = "SparseStack" ->
            IF Len(children_vars) > 1
            THEN IF no_sparse
                 THEN Str(<<L("jax_coo_vstack((")>> \o joined \o <<L("))")>>)
                 ELSE Str(<<L("scipy.sparse.vstack((")>> \o joined \o <<L("))")>>)
            ELSE Str(joined)
       [] n.kind = "DomainConcatenation" ->
            Str(DomainConcatenationStr(children_vars, n.dc))
       [] OTHER -> Raise("NotImplementedError", "")

\* the isinstance chain of find_symbols: symbol_str for a non-constant symbol
SymbolStr(nodes, s, n, children_vars, no_sparse) ==
     CASE n.kind \in BinaryOperators ->
            BinaryOperatorStr(nodes, s, children_vars, no_sparse)
       [] n.kind \in UnaryOperators ->
            IF n.kind = "Index"
            THEN Str(<<children_vars[1], L("["), StrNum(n.lo), L(":"), StrNum(n.hi),
                       L("]")>>)
            ELSE Str(<<L(n.name), children_vars[1]>>)
       [] n.kind = "Function" ->
            LET children_str == Join(", ", Singletons(children_vars))
            IN IF n.ufunc
               THEN Str(<<L("np." \o n.name \o "(")>> \o children_str \o <<L(")")>>)
               ELSE [exc |-> NoExc,
                     str |-> <<ConstName(SymbolId(s)), L("(")>> \o children_str
                               \o <<L(")")>>,
                     consts |-> <<[k |-> SymbolId(s), v |-> Callable(n.name)]>>]
       [] n.kind \in Concatenations -> ConcatenationStr(n, children_vars, no_sparse)
       [] n.kind = "StateVector" -> StateVectorStr(n.mask)
       [] n.kind = "Time" -> Str(<<L("t")>>)
       [] n.kind = "InputParameter" ->
            Str(<<L("inputs['"), Piece("key", n.name, 0), L("']")>>)
       [] OTHER ->
            Raise("NotImplementedError",
                  "Not implemented for a symbol of type '" \o n.kind \o "'")

RECURSIVE DictSetAll(_, _)
DictSetAll(d, items) ==
  IF items = <<>> THEN d
  ELSE DictSetAll(DictSet(d, Head(items).k, Head(items).v), Tail(items))

\* the tables find_symbols fills, and the exception it raised, if any
Tables(constant_symbols, variable_symbols, exc) ==
  [constant_symbols |-> constant_symbols, variable_symbols |-> variable_symbols,
   exc |-> exc]

\* a faulty StoreConstant, which stores a number too
StoreConstantAlways(st, symbol_id, value, no_sparse) ==
  [st EXCEPT !.constant_symbols = DictSet(@, symbol_id, value)]

\* a constant symbol: its value is stored unless it is a number
StoreConstant(st, symbol_id, value, no_sparse) ==
  IF value.ty = "num" THEN st
  ELSE IF no_sparse /\ issparse(value)
  THEN [st EXCEPT !.constant_symbols = DictSet(@, symbol_id, tocoo(value))]
  ELSE [st EXCEPT !.constant_symbols = DictSet(@, symbol_id, value)]

\* a symbol that is not constant, after its children (st1): r is what its
\* branch gave
StoreVariable(st1, symbol_id, r) ==
  IF st1.exc # NoExc THEN st1
  ELSE IF r.exc # NoExc THEN [st1 EXCEPT !.exc = r.exc]
  ELSE Tables(DictSetAll(st1.constant_symbols, r.consts),
              DictSet(st1.variable_symbols, symbol_id, r.str),
              NoExc)

RECURSIVE find_symbols(_, _, _, _)
RECURSIVE FindChildren(_, _, _, _)
\* for child in symbol.children: find_symbols(child, ...)
FindChildren(nodes, children, st, no_sparse) ==
  IF children = <<>> \/ st.exc # NoExc THEN st
  ELSE FindChildren(nodes, Tail(children),
                    find_symbols(nodes, Head(children), st, no_sparse), no_sparse)

find_symbols(nodes, s, st, no_sparse) ==
  IF is_constant(nodes, s)
  THEN StoreConstant(st, SymbolId(s), Fold(nodes, s), no_sparse)
  ELSE StoreVariable(FindChildren(nodes, nodes[s].children, st, no_sparse),
                     SymbolId(s),
                     SymbolStr(nodes, s, nodes[s],
                               [k \in 1..Len(nodes[s].children) |->
                                  ChildVar(nodes, nodes[s].children[k])],
                               no_sparse))

\* to_python: the constants, and the lines of the python code ("\n".join of
\* no line is the empty string, one empty line)
\* one line of the code: the assignment of a fragment to its variable
VariableLine(var, symbol_str, debug) ==
  IF debug
  THEN <<L("print('"), var, L(" = ")>> \o symbol_str \o <<L("'); "), var, L(" = ")>>
         \o symbol_str \o <<L("; print(type("), var, L("),"), var, L(".shape)")>>
  ELSE <<var, L(" = ")>> \o symbol_str

\* what to_python returns for the tables st of find_symbols
PythonLines(st, debug) ==
  [exc |-> st.exc,
   constant_values |-> st.constant_symbols,
   variable_symbols |-> st.variable_symbols,
   python_str |->
     IF st.variable_symbols = <<>> THEN <<<<>>>>
     ELSE [i \in 1..Len(st.variable_symbols) |->
             VariableLine(VarName(st.variable_symbols[i].k), st.variable_symbols[i].v,
                          debug)]]

to_python(nodes, symbol, debug, no_sparse) ==
  PythonLines(find_symbols(nodes, symbol, Tables(<<>>, <<>>, NoExc), no_sparse), debug)

\* a faulty PrependConstants, which counts the positions from 1
RECURSIVE PrependConstantsFromOne(_, _, _)
PrependConstantsFromOne(keys, i, python_str) ==
  IF i > Len(keys) THEN python_str
  ELSE PrependConstantsFromOne(keys, i + 1,
         <<<<ConstName(keys[i]), L(" = constants["), StrNum(i), L("]")>>>>
           \o python_str)

\* ------------------------------------------------- EvaluatorPython.__init__
\* for i, symbol_id in enumerate(constants.keys()): each binding is put in
\* front of the code so far
RECURSIVE PrependConstants(_, _, _)
PrependConstants(keys, i, python_str) ==
  IF i > Len(keys) THEN python_str
  ELSE PrependConstants(keys, i + 1,
         <<<<ConstName(keys[i]), L(" = constants["), StrNum(i - 1), L("]")>>>>
           \o python_str)

\* '   ' + python_str, with every '\n' replaced by '\n   '
Indent(python_str) == [i \in 1..Len(python_str) |-> <<L("   ")>> \o python_str[i]]

DefLine ==
  <<L("def evaluate(constants, t=None, y=None, y_dot=None, inputs=None, known_evals=None):")>>
StoreLine == <<L("self._evaluate = evaluate")>>
DefLineJax ==
  <<L("def evaluate_jax(constants, t=None, y=None, y_dot=None, inputs=None, known_evals=None):")>>
StoreLineJax == <<L("self._evaluate_jax = evaluate_jax")>>

\* the return line from symbol.id, symbol.is_constant() and, for a constant
\* symbol, result_value = symbol.evaluate()
ReturnStatement(symbol_id, constant, result_value) ==
  IF constant /\ result_value.ty = "num"
  THEN <<L("   return "), StrNum(result_value.v)>>
  ELSE <<L("   return "), IF constant THEN ConstName(symbol_id) ELSE VarName(symbol_id)>>

\* a faulty return line, which always returns result_var
ReturnLineResultVar(nodes, symbol) ==
  <<L("   return "),
    IF is_constant(nodes, symbol) THEN ConstName(SymbolId(symbol))
    ELSE VarName(SymbolId(symbol))>>

\* the return line
ReturnLine(nodes, symbol) ==
  ReturnStatement(SymbolId(symbol), is_constant(nodes, symbol), Fold(nodes, symbol))

\* self._constants and self._python_str from what to_python returned (r) and
\* the return line, or the exception to_python raised
Assemble(r, return_line) ==
  [exc |-> r.exc,
   constants |-> IF r.exc # NoExc THEN <<>>
                 ELSE [i \in 1..Len(r.constant_values) |-> r.constant_values[i].v],
   python_str |->
     IF r.exc # NoExc THEN <<>>
     ELSE <<DefLine>>
            \o Indent(PrependConstants(DictKeys(r.constant_values), 1, r.python_str))
            \o <<return_line, StoreLine>>]

EvaluatorPython_init(nodes, symbol) ==
  Assemble(to_python(nodes, symbol, FALSE, FALSE), ReturnLine(nodes, symbol))

\* ---------------------------------------------------- EvaluatorJax.__init__
\* python_str.replace('np.', 'jax.numpy.'), on the text of every piece of
\* every line: no 'np.' of the code lies across two pieces
JaxNumpy(python_str) ==
  [i \in 1..Len(python_str) |->
     [j \in 1..Len(python_str[i]) |->
        [python_str[i][j] EXCEPT !.s = Replace(@, "np.", "jax.numpy.")]]]

\* self._constants and the source of evaluate_jax from what
\* to_python(symbol, no_sparse=True) returned (r) and the return line;
\* jax.device_put leaves the entries of an array as they are
AssembleJax(r, return_line) ==
  [exc |-> r.exc,
   constants |-> IF r.exc # NoExc THEN <<>>
                 ELSE [i \in 1..Len(r.constant_values) |-> r.constant_values[i].v],
   python_str |->
     IF r.exc # NoExc THEN <<>>
     ELSE <<DefLineJax>>
            \o Indent(PrependConstants(DictKeys(r.constant_values), 1,
                                       JaxNumpy(r.python_str)))
            \o <<return_line, StoreLineJax>>]

EvaluatorJax_init(nodes, symbol) ==
  AssembleJax(to_python(nodes, symbol, FALSE, TRUE), ReturnLine(nodes, symbol))

\* EvaluatorJax.get_jacobian(): the jacobian of evaluate_jax and the constants
get_jacobian(self) == [jac_evaluate |-> self.python_str, constants |-> self.constants]

\* ------------------------------------------- JaxCooMatrix, jax_coo_vstack
\* result.at[row].add(updates): every update is added to the entry of its
\* row (rows are 0-based), so the updates of a repeated row add up
RECURSIVE ScatterAdd(_, _, _)
ScatterAdd(result, row, updates) ==
  IF row = <<>> THEN result
  ELSE ScatterAdd([result EXCEPT ![Head(row) + 1] = @ + Head(updates)],
                  Tail(row), Tail(updates))

\* a faulty dot_product, where an update replaces the entry of its row
dot_productOverwrites(self, b) ==
  LET Last(r) == CHOOSE k \in 1..Len(self.v.row) :
                   /\ self.v.row[k] = r - 1
                   /\ \A j \in (k + 1)..Len(self.v.row) : self.v.row[j] # r - 1
  IN Arr([r \in 1..self.v.shape[1] |->
            IF \E k \in 1..Len(self.v.row) : self.v.row[k] = r - 1
            THEN self.v.data[Last(r)] * b.v[self.v.col[Last(r)] + 1]
            ELSE 0])

\* JaxCooMatrix.dot_product(b), b a column
dot_product(self, b) ==
  LET result == [r \in 1..self.v.shape[1] |-> 0]
      updates == [k \in 1..Len(self.v.data) |->
                    self.v.data[k] * b.v[self.v.col[k] + 1]]
  IN Arr(ScatterAdd(result, self.v.row, updates))

\* JaxCooMatrix.__matmul__(b): the same sums, as an array of one dimension
JaxCooMatrix_matmul(self, b) == Arr1(dot_product(self, b).v)

\* np.cumsum
RECURSIVE CumSum(_, _)
CumSum(s, acc) ==
  IF s = <<>> THEN <<>> ELSE <<acc + Head(s)>> \o CumSum(Tail(s), acc + Head(s))

\* the blocks a caller passes: a python tuple or list of matrices, or a
\* numpy object array of shape (M, 1)
Blocks(ty, ms) == [ty |-> ty, v |-> ms]

\* jax_coo_vstack(blocks): block_mask and brow_lengths are made of zeros and
\* no entry of them is set afterwards; blocks[block_mask] is the first use of
\* blocks and blocks[0].data.dtype the second
jax_coo_vstack(blocks) ==
  LET M == Len(blocks.v)
      N == 1
      block_mask == [i \in 1..M |-> [j \in 1..N |-> FALSE]]
      brow_lengths == [i \in 1..M |-> 0]
      bcol_lengths == [j \in 1..N |-> 0]
      masked == SelectSeq([i \in 1..M |-> i], LAMBDA i : block_mask[i][1])
      nnz == SumSeq([k \in 1..Len(masked) |-> blocks.v[masked[k]].v.nnz])
      row_offsets == <<0>> \o CumSum(brow_lengths, 0)
      col_offsets == <<0>> \o CumSum(bcol_lengths, 0)
      shape == <<row_offsets[Len(row_offsets)], col_offsets[Len(col_offsets)]>>
      row == Flatten([k \in 1..Len(masked) |->
                        [e \in 1..blocks.v[masked[k]].v.nnz |->
                           blocks.v[masked[k]].v.row[e] + row_offsets[masked[k]]]])
      col == Flatten([k \in 1..Len(masked) |->
                        [e \in 1..blocks.v[masked[k]].v.nnz |->
                           blocks.v[masked[k]].v.col[e] + col_offsets[1]]])
      data == Flatten([k \in 1..Len(masked) |-> blocks.v[masked[k]].v.data])
  IN IF blocks.ty \in {"tuple", "list"} THEN Err("TypeError")
     ELSE IF M = 0 THEN Err("IndexError")
     ELSE IF blocks.ty = "ndarray" THEN Err("AttributeError")
     ELSE JaxCooMatrix(row, col, data, shape)

\* ---------------------------------------------- running the generated code
\* the largest number read back from a literal of the generated code
MaxLiteral == 1000

\* int(s) of the text of a literal: the integer whose str() is s, searched
\* outwards from 0
RECURSIVE ParseInt(_, _)
ParseInt(s, n) ==
  IF ToString(n) = s THEN Num(n)
  ELSE IF ToString(-n) = s THEN Num(-n)
  ELSE IF n >= MaxLiteral THEN Err("NotModelled")
  ELSE ParseInt(s, n + 1)

\* the value of a name or of a literal in the environment env (the names
\* assigned so far)
Resolve(p, env) ==
  CASE p.k \in {"var", "const"} ->
         IF DictHas(env, p.s) THEN DictGet(env, p.s) ELSE Err("NameError")
    [] p.k = "num" -> ParseInt(p.s, 0)
    [] OTHER -> Err("SyntaxError")

\* the literal text of an expression, with {} for what is formatted in
Skeleton(e) == [i \in 1..Len(e) |-> IF e[i].k = "lit" THEN e[i].s ELSE "{}"]

\* the arguments of a call f((a,b[0:1],...)): the pieces between the commas
RECURSIVE SplitArgs(_, _)
SplitArgs(ps, cur) ==
  IF ps = <<>> THEN <<cur>>
  ELSE IF Head(ps) = L(",") THEN <<cur>> \o SplitArgs(Tail(ps), <<>>)
  ELSE SplitArgs(Tail(ps), Append(cur, Head(ps)))

\* an argument: a name, or a slice name[lo:hi] of it
ArgValue(a, env) ==
  IF Len(a) = 1 THEN Resolve(a[1], env)
  ELSE IF Skeleton(a) = <<"{}", "[", "{}", ":", "{}", "]">>
  THEN LET lo == Resolve(a[3], env)
           hi == Resolve(a[5], env)
       IN IF lo.ty = "num" /\ hi.ty = "num" THEN Slice(Resolve(a[1], env), lo.v, hi.v)
          ELSE Err("TypeError")
  ELSE Err("SyntaxError")

\* python's value of the expression e
EvalExpr(e, env, t, y, inputs) ==
  LET sk == Skeleton(e)
      v(i) == Resolve(e[i], env)
      args == LET as == SplitArgs(SubSeq(e, 2, Len(e) - 1), <<>>)
              IN [k \in 1..Len(as) |-> ArgValue(as[k], env)]
  IN CASE sk = <<"{}", " + ", "{}">> -> Add(v(1), v(3))
       [] sk = <<"{}", " - ", "{}">> -> Sub(v(1), v(3))
       [] sk = <<"{}", " * ", "{}">> ->
            IF v(1).ty = "sparse" \/ v(3).ty = "sparse" THEN Err("NotModelled")
            ELSE Mul(v(1), v(3))
       [] sk = <<"{}", " @ ", "{}">> ->
            IF v(1).ty = "coo"
            THEN IF v(3).ty = "arr" /\ Len(v(3).v) = v(1).v.shape[2]
                 THEN JaxCooMatrix_matmul(v(1), v(3))
                 ELSE IF IsErr(v(3)) THEN v(3) ELSE Err("NotModelled")
            ELSE MatMul(v(1), v(3))
       [] sk = <<"{}", ".multiply(", "{}", ")">> -> SparseMultiply(v(1), v(3))
       [] sk = <<"{}", ".dot_product(", "{}", ")">> ->
            IF IsErr(v(1)) THEN v(1)
            ELSE IF IsErr(v(3)) THEN v(3)
            ELSE IF v(1).ty # "coo" \/ v(3).ty = "coo" THEN Err("AttributeError")
            ELSE IF v(3).ty = "arr" /\ Len(v(3).v) = v(1).v.shape[2]
            THEN dot_product(v(1), v(3))
            ELSE Err("NotModelled")
       [] sk \in {<<"np.minimum(", "{}", ",", "{}", ")">>,
                  <<"jax.numpy.minimum(", "{}", ",", "{}", ")">>} -> Minimum(v(2), v(4))
       [] sk \in {<<"np.maximum(", "{}", ",", "{}", ")">>,
                  <<"jax.numpy.maximum(", "{}", ",", "{}", ")">>} -> Maximum(v(2), v(4))
       [] sk = <<"-", "{}">> -> Neg(v(2))
       [] sk = <<"{}", "[", "{}", ":", "{}", "]">> -> ArgValue(e, env)
       [] sk \in {<<"np.absolute(", "{}", ")">>, <<"jax.numpy.absolute(", "{}", ")">>} ->
            CallFunction("absolute", v(2))
       [] sk = <<"{}", "(", "{}", ")">> ->
            IF IsErr(v(1)) THEN v(1)
            ELSE IF v(1).ty = "fn" THEN CallFunction(v(1).v, v(3))
            ELSE Err("TypeError")
       [] /\ Len(e) >= 3
          /\ sk[1] \in {"np.concatenate((", "jax.numpy.concatenate(("}
          /\ sk[Len(e)] = "))" ->
            NpConcatenate(args)
       [] Len(e) >= 3 /\ sk[1] = "jax_coo_vstack((" /\ sk[Len(e)] = "))" ->
            jax_coo_vstack(Blocks("tuple", args))
       [] Len(e) >= 3 /\ sk[1] = "scipy.sparse.vstack((" /\ sk[Len(e)] = "))" ->
            SparseVstack(args)
       [] sk = <<"{}">> -> v(1)
       [] sk = <<"y[", "{}", ":", "{}", "]">> ->
            IF v(2).ty = "num" /\ v(4).ty = "num" THEN Slice(y, v(2).v, v(4).v)
            ELSE Err("TypeError")
       [] sk = <<"y[", "{}", "]">> -> IF IsErr(v(2)) THEN v(2) ELSE Take(y, v(2))
       [] sk = <<"t">> -> Num(t)
       [] sk = <<"inputs['", "{}", "']">> -> Subscript(inputs, e[2].s)
       [] OTHER -> Err("NotModelled")

\* the function the generated lines define, called with (constants, t, y,
\* y_dot, inputs, known_evals): its return value, or the exception raised
RECURSIVE RunLines(_, _, _, _, _, _)
RECURSIVE RunLine(_, _, _, _, _, _, _, _, _)
\* one line: value is the value of the right-hand side of an assignment, i
\* the value of the index of a constants[...]
RunLine(line, rest, value, i, env, constants, t, y, inputs) ==
  CASE line \in {DefLine, DefLineJax, <<L("   ")>>} ->
         RunLines(rest, env, constants, t, y, inputs)
    [] line \in {StoreLine, StoreLineJax} -> None
    [] Len(line) = 2 /\ line[1] = L("   return ") -> Resolve(line[2], env)
    [] Len(line) = 5 /\ line[1] = L("   ") /\ line[3] = L(" = constants[") ->
         IF i.ty = "num" /\ i.v + 1 \in 1..Len(constants)
         THEN RunLines(rest, DictSet(env, line[2].s, constants[i.v + 1]),
                       constants, t, y, inputs)
         ELSE Err("IndexError")
    [] Len(line) >= 4 /\ line[1] = L("   ") /\ line[3] = L(" = ") ->
         IF IsErr(value) THEN value
         ELSE RunLines(rest, DictSet(env, line[2].s, value), constants, t, y, inputs)
    [] OTHER -> Err("SyntaxError")

RunLines(lines, env, constants, t, y, inputs) ==
  IF lines = <<>> THEN None
  ELSE RunLine(Head(lines), Tail(lines),
               EvalExpr(SubSeq(Head(lines), 4, Len(Head(lines))), env, t, y, inputs),
               IF Len(Head(lines)) >= 4 THEN Resolve(Head(lines)[4], env)
               ELSE Err("SyntaxError"),
               env, constants, t, y, inputs)

\* what evaluate returns: the result comes with known_evals when known_evals
\* is given
Returned(result, known_evals) ==
  IF known_evals # None
  THEN [pair |-> TRUE, result |-> result, known_evals |-> known_evals]
  ELSE [pair |-> FALSE, result |-> result, known_evals |-> None]

\* a faulty Column, which passes y on as it came
ColumnAsGiven(y) == y

\* if y is not None and y.ndim == 1: y = y.reshape(-1, 1)
Column(y) == IF y # None /\ y.ty = "arr1" THEN Arr(y.v) ELSE y

\* EvaluatorPython.evaluate: y of one dimension is made a column
EvaluatorPython_evaluate(self, t, y, inputs, known_evals) ==
  Returned(RunLines(self.python_str, <<>>, self.constants, t, Column(y), inputs),
           known_evals)

\* EvaluatorJax.evaluate: self._jit_evaluate is evaluate_jax compiled by
\* jax.jit, which computes what evaluate_jax computes
EvaluatorJax_evaluate(self, t, y, inputs, known_evals) ==
  Returned(RunLines(self.python_str, <<>>, self.constants, t, Column(y), inputs),
           known_evals)

\* self._jac_evaluate, jax.jacfwd(evaluate_jax, argnums=2): value is
\* evaluate_jax at y, plus[j] and minus[j] are evaluate_jax with entry j of y
\* one more and one less.  The derivative of the result by the entries of the
\* column y has the shape of the result followed by the shape (n, 1) of y.
\* The results are polynomials in y of degree two at most, for which half
\* the difference of plus and minus is the derivative.
jacfwd(value, plus, minus, y) ==
  LET n == Len(y.v)
      d(i, j) == (plus[j].v[i] - minus[j].v[i]) \div 2
  IN CASE y.ty # "arr" -> Err("TypeError")
       [] IsErr(value) -> value
       [] value.ty = "num" -> NdArray(<<n, 1>>, [j \in 1..n |-> 0])
       [] value.ty = "arr" ->
            NdArray(<<Len(value.v), 1, n, 1>>,
                    [k \in 1..(Len(value.v) * n) |-> d(((k - 1) \div n) + 1, ((k - 1) % n) + 1)])
       [] value.ty = "arr1" ->
            NdArray(<<Len(value.v), n, 1>>,
                    [k \in 1..(Len(value.v) * n) |-> d(((k - 1) \div n) + 1, ((k - 1) % n) + 1)])
       [] OTHER -> Err("TypeError")

\* the product of the extents of a shape
RECURSIVE Size(_)
Size(shape) == IF shape = <<>> THEN 1 ELSE Head(shape) * Size(Tail(shape))

\* result.reshape(result.shape[0], -1)
Reshape2(result) ==
  IF IsErr(result) THEN result
  ELSE IF result.shape[1] = 0 THEN Err("ValueError")
  ELSE NdArray(<<result.shape[1], Size(Tail(result.shape))>>, result.v)

\* the entries of y with entry j changed by d
Nudge(y, j, d) ==
  IF y.ty = "arr" THEN Arr([i \in 1..Len(y.v) |-> IF i = j THEN y.v[i] + d ELSE y.v[i]])
  ELSE y

\* self._jac_evaluate(self._constants, t, y, y_dot, inputs, known_evals)
jac_evaluate(python_str, constants, t, y, inputs) ==
  LET f(yy) == RunLines(python_str, <<>>, constants, t, yy, inputs)
      n == IF y.ty = "arr" THEN Len(y.v) ELSE 0
  IN jacfwd(f(y), [j \in 1..n |-> f(Nudge(y, j, 1))], [j \in 1..n |-> f(Nudge(y, j, -1))], y)

\* EvaluatorJaxJacobian.evaluate
EvaluatorJaxJacobian_evaluate(self, t, y, inputs, known_evals) ==
  Returned(Reshape2(jac_evaluate(self.jac_evaluate, self.constants, t, Column(y), inputs)),
           known_evals)

\* ------------------------------------------ find_symbols (evaluate_julia.py)
\* the julia text is kept as the string it is
id_to_julia_variable(symbol_id, constant) ==
  LET f == Format05d(symbol_id)
  IN Replace((IF constant THEN "const_" ELSE "cache_") \o f.sign \o f.digits, "-", "m")

\* sep.join(items) of strings
RECURSIVE JoinStr(_, _)
JoinStr(sep, items) ==
  IF items = <<>> THEN ""
  ELSE IF Len(items) = 1 THEN items[1]
  ELSE items[1] \o sep \o JoinStr(sep, Tail(items))

\* np.array2string(a, separator=",") of an array of one dimension that is
\* no longer than the print threshold: every entry is printed (the entries
\* of the model have one digit, so no entry is padded)
array2string(a) == "[" \o JoinStr(",", [i \in 1..Len(a) |-> ToString(a[i])]) \o "]"

\* a value of a table of find_symbols that is a string, and one that is a
\* list of strings
JStr(s) == [ty |-> "str", s |-> s]
JList(items) == [ty |-> "list", items |-> items]

\* the constant branch for a value that is not a number: what is stored in
\* constant_symbols, and the print threshold of numpy after it
JuliaConstant(value, threshold) ==
  IF issparse(value)
  THEN LET coo == tocoo(value).v
       IN [stored |-> JStr("sparse("
                           \o array2string([k \in 1..Len(coo.row) |-> coo.row[k] + 1])
                           \o ", "
                           \o array2string([k \in 1..Len(coo.col) |-> coo.col[k] + 1])
                           \o ", " \o array2string(coo.data)
                           \o ", " \o ToString(coo.shape[1])
                           \o ", " \o ToString(coo.shape[2]) \o ")"),
           threshold |-> Max2(threshold, Len(coo.row) + 10)]
  ELSE IF value.ty = "arr" /\ Len(value.v) = 1
  THEN [stored |-> Num(value.v[1]), threshold |-> threshold]
  ELSE IF value.ty = "arr"
  THEN [stored |-> JStr(array2string(value.v)),
        threshold |-> Max2(threshold, Len(value.v) + 10)]
  ELSE [stored |-> value, threshold |-> threshold]

\* the name a parent uses for its child
JuliaChildVar(nodes, child) ==
  IF is_constant(nodes, child)
  THEN IF Fold(nodes, child).ty = "num" THEN ToString(Fold(nodes, child).v)
       ELSE id_to_julia_variable(SymbolId(child), TRUE)
  ELSE id_to_julia_variable(SymbolId(child), FALSE)

\* the DomainConcatenation branch: as in evaluate.py, with views
JuliaChildEntries(children_vars, dc, i) ==
  Flatten([k \in 1..Min2(Len(children_vars), Len(dc.cs)) |->
    [j \in 1..Len(dc.cs[k]) |->
      [start |-> dc.sl[dc.cs[k][j].dom][i + 1].start,
       vec |-> "@view " \o children_vars[k] \o "["
                 \o ToString(dc.cs[k][j].sl[i + 1].start) \o ":"
                 \o ToString(dc.cs[k][j].sl[i + 1].stop) \o "]"]]])

RECURSIVE JuliaDomainRepetitions(_, _, _, _)
JuliaDomainRepetitions(children_vars, dc, i, slice_starts0) ==
  IF i >= dc.npts THEN <<>>
  ELSE LET entries == JuliaChildEntries(children_vars, dc, i)
           slice_starts == slice_starts0 \o [k \in 1..Len(entries) |-> entries[k].start]
           zipped == [k \in 1..Min2(Len(slice_starts), Len(entries)) |->
                        [key |-> slice_starts[k],
                         vec |-> [c \in 1..Len(entries[k].vec) |->
                                    L(SubSeq(entries[k].vec, c, c))],
                         text |-> entries[k].vec]]
           sorted == Sorted(zipped)
       IN [k \in 1..Len(sorted) |-> sorted[k].text]
            \o JuliaDomainRepetitions(children_vars, dc, i + 1, slice_starts)

\* the result of the branch of find_symbols for one node: the exception it
\* raised, whether it returned, or symbol_str and the constants it stored
JuliaBranch(str, consts) == [exc |-> NoExc, ret |-> FALSE, str |-> str, consts |-> consts]
JuliaRaise(type, msg) == [exc |-> Exc(type, msg), ret |-> FALSE, str |-> JStr(""), consts |-> <<>>]

\* a faulty JuliaIndexStr, which keeps the start of the slice
JuliaIndexStrUnshifted(child_var, start, stop) ==
  child_var \o "[" \o ToString(start) \o ":" \o ToString(stop) \o "]"

\* the Index branch: "{}[{}:{}]".format(children_vars[0],
\* symbol.slice.start + 1, symbol.slice.stop)
JuliaIndexStr(child_var, start, stop) ==
  child_var \o "[" \o ToString(start + 1) \o ":" \o ToString(stop) \o "]"

\* the isinstance chain of find_symbols
JuliaSymbolStr(s, n, children_vars) ==
  CASE n.kind = "MatrixMultiplication" ->
         JuliaBranch(JStr(children_vars[1] \o " * " \o children_vars[2]), <<>>)
    [] n.kind = "Inner" ->
         JuliaBranch(JStr(children_vars[1] \o " .* " \o children_vars[2]), <<>>)
    [] n.kind = "Minimum" ->
         JuliaBranch(JStr("np.minimum(" \o children_vars[1] \o "," \o children_vars[2]
                          \o ")"), <<>>)
    [] n.kind = "Maximum" ->
         JuliaBranch(JStr("np.maximum(" \o children_vars[1] \o "," \o children_vars[2]
                          \o ")"), <<>>)
    [] n.kind = "Power" ->
         JuliaBranch(JStr(children_vars[1] \o " .^ " \o children_vars[2]), <<>>)
    [] n.kind \in BinaryOperators ->
         JuliaBranch(JStr(children_vars[1] \o " ." \o n.name \o " " \o children_vars[2]),
                     <<>>)
    [] n.kind = "Index" -> JuliaBranch(JStr(JuliaIndexStr(children_vars[1], n.lo, n.hi)), <<>>)
    [] n.kind \in UnaryOperators -> JuliaBranch(JStr(n.name \o children_vars[1]), <<>>)
    [] n.kind = "Function" ->
         JuliaBranch(JStr(n.name \o ".(" \o JoinStr(", ", children_vars) \o ")"), <<>>)
    [] n.kind \in {"NumpyConcatenation", "SparseStack"} ->
         JuliaBranch(JList(children_vars), <<>>)
    [] n.kind = "DomainConcatenation" ->
         IF Len(children_vars) > 1 \/ n.dc.npts > 1
         THEN JuliaBranch(JStr("np.concatenate(("
                               \o JoinStr(",", JuliaDomainRepetitions(children_vars, n.dc,
                                                                      0, <<>>))
                               \o "))"), <<>>)
         ELSE JuliaBranch(JStr(JoinStr(",", children_vars)), <<>>)
    [] n.kind \in Concatenations -> JuliaRaise("NotImplementedError", "")
    [] n.kind = "StateVector" ->
         LET indices == [k \in 1..Cardinality(n.mask) |-> Ascending(n.mask)[k] + 1]
             consecutive ==
               \A k \in 1..(Len(indices) - 1) : indices[k + 1] - indices[k] = 1
         IN IF Len(indices) = 1
            THEN JuliaBranch(JStr("@view y[" \o ToString(indices[1]) \o "]"), <<>>)
            ELSE IF consecutive
            THEN IF indices = <<>> THEN JuliaRaise("IndexError", "")
                 ELSE JuliaBranch(JStr("@view y[" \o ToString(indices[1]) \o ":"
                                       \o ToString(indices[Len(indices)]) \o "]"), <<>>)
            ELSE JuliaBranch(JStr("@view y["
                                  \o id_to_julia_variable(ArrayId(indices), TRUE) \o "]"),
                             <<[k |-> ArrayId(indices), v |-> IdxArr(indices)]>>)
    [] n.kind = "Time" -> JuliaBranch(JStr("t"), <<>>)
    [] n.kind = "InputParameter" -> JuliaBranch(JStr("inputs['" \o n.name \o "']"), <<>>)
    [] n.kind = "Variable" -> [JuliaBranch(JStr(""), <<>>) EXCEPT !.ret = TRUE]
    [] OTHER ->
         JuliaRaise("NotImplementedError",
                    "Conversion to Julia not implemented for a symbol of type '"
                      \o n.kind \o "'")

\* symbol.shape: the shape of what the symbol evaluates to, () for a number
shape(v) ==
  CASE v.ty \in {"arr", "idx"} -> <<Len(v.v), 1>>
    [] v.ty = "sparse" -> <<Len(v.v), IF v.v = <<>> THEN 0 ELSE Len(v.v[1])>>
    [] OTHER -> <<>>

\* the tables find_symbols fills, the exception it raised, if any, and the
\* print threshold of numpy (np.get_printoptions()["threshold"])
JuliaTables(constant_symbols, variable_symbols, variable_symbol_sizes, exc, threshold) ==
  [constant_symbols |-> constant_symbols, variable_symbols |-> variable_symbols,
   variable_symbol_sizes |-> variable_symbol_sizes, exc |-> exc,
   threshold |-> threshold]

\* a constant symbol
JuliaStoreConstant(st, symbol_id, value) ==
  IF value.ty = "num" THEN st
  ELSE LET c == JuliaConstant(value, st.threshold)
       IN [st EXCEPT !.constant_symbols = DictSet(@, symbol_id, c.stored),
                     !.threshold = c.threshold]

\* a faulty JuliaStoreVariable, which takes the size of a symbol of any
\* orientation
JuliaStoreVariableAnyShape(st1, symbol_id, r, symbol_shape) ==
  IF st1.exc # NoExc THEN st1
  ELSE IF r.exc # NoExc THEN [st1 EXCEPT !.exc = r.exc]
  ELSE IF r.ret THEN st1
  ELSE LET st2 == [st1 EXCEPT !.constant_symbols = DictSetAll(@, r.consts),
                              !.variable_symbols = DictSet(@, symbol_id, r.str)]
       IN IF Len(symbol_shape) < 2
          THEN [st2 EXCEPT !.exc = Exc("IndexError", "tuple index out of range")]
          ELSE [st2 EXCEPT !.variable_symbol_sizes = DictSet(@, symbol_id, symbol_shape[1])]

\* a faulty JuliaStoreVariable, which goes on after a branch that returned
JuliaStoreVariableNoReturn(st1, symbol_id, r, symbol_shape) ==
  IF st1.exc # NoExc THEN st1
  ELSE IF r.exc # NoExc THEN [st1 EXCEPT !.exc = r.exc]
  ELSE LET st2 == [st1 EXCEPT !.constant_symbols = DictSetAll(@, r.consts),
                              !.variable_symbols = DictSet(@, symbol_id, r.str)]
       IN IF Len(symbol_shape) < 2
          THEN [st2 EXCEPT !.exc = Exc("IndexError", "tuple index out of range")]
          ELSE IF symbol_shape[2] # 1
          THEN [st2 EXCEPT !.exc = Exc("ValueError", "expected column vector")]
          ELSE [st2 EXCEPT !.variable_symbol_sizes = DictSet(@, symbol_id, symbol_shape[1])]

\* a symbol that is not constant, after its children (st1): r is what its
\* branch gave and symbol_shape is symbol.shape
JuliaStoreVariable(st1, symbol_id, r, symbol_shape) ==
  IF st1.exc # NoExc THEN st1
  ELSE IF r.exc # NoExc THEN [st1 EXCEPT !.exc = r.exc]
  ELSE IF r.ret THEN st1
  ELSE LET st2 == [st1 EXCEPT !.constant_symbols = DictSetAll(@, r.consts),
                              !.variable_symbols = DictSet(@, symbol_id, r.str)]
       IN IF Len(symbol_shape) < 2
          THEN [st2 EXCEPT !.exc = Exc("IndexError", "tuple index out of range")]
          ELSE IF symbol_shape[2] # 1
          THEN [st2 EXCEPT !.exc = Exc("ValueError", "expected column vector")]
          ELSE [st2 EXCEPT !.variable_symbol_sizes = DictSet(@, symbol_id, symbol_shape[1])]

RECURSIVE julia_find_symbols(_, _, _)
RECURSIVE JuliaFindChildren(_, _, _)
JuliaFindChildren(nodes, children, st) ==
  IF children = <<>> \/ st.exc # NoExc THEN st
  ELSE JuliaFindChildren(nodes, Tail(children),
                         julia_find_symbols(nodes, Head(children), st))

\* find_symbols(symbol, constant_symbols, variable_symbols,
\* variable_symbol_sizes) of evaluate_julia.py
julia_find_symbols(nodes, s, st) ==
  IF is_constant(nodes, s)
  THEN JuliaStoreConstant(st, SymbolId(s), Fold(nodes, s))
  ELSE JuliaStoreVariable(JuliaFindChildren(nodes, nodes[s].children, st),
                          SymbolId(s),
                          JuliaSymbolStr(s, nodes[s],
                                         [k \in 1..Len(nodes[s].children) |->
                                            JuliaChildVar(nodes, nodes[s].children[k])]),
                          shape(evaluate_for_shape(nodes, s)))

\* to_julia(symbol): the three tables, made anew by each call
to_julia(nodes, symbol, threshold) ==
  julia_find_symbols(nodes, symbol, JuliaTables(<<>>, <<>>, <<>>, NoExc, threshold))

\* ------------------------------------------------------ get_julia_function
\* "{}".format(const_value) of what find_symbols stored
FormatValue(v) ==
  CASE v.ty = "str" -> v.s
    [] v.ty = "num" -> ToString(v.v)
    [] v.ty = "idx" -> "[" \o JoinStr(" ", [i \in 1..Len(v.v) |-> ToString(v.v[i])]) \o "]"
    [] v.ty = "list" ->
         "[" \o JoinStr(", ", [i \in 1..Len(v.items) |-> "'" \o v.items[i] \o "'"]) \o "]"
    [] OTHER -> ""

\* the loop over constants.items()
RECURSIVE ConstantsStr(_)
ConstantsStr(constants) ==
  IF constants = <<>> THEN ""
  ELSE "   " \o id_to_julia_variable(Head(constants).k, TRUE) \o " = "
         \o FormatValue(Head(constants).v) \o ",\n" \o ConstantsStr(Tail(constants))

inlineable_symbols == <<"@view", ".+", ".-", ".*", "./">>

\* x in symbol_line, for a string and for a list
In(x, symbol_line) ==
  IF symbol_line.ty = "list" THEN \E i \in 1..Len(symbol_line.items) : symbol_line.items[i] = x
  ELSE Contains(symbol_line.s, x)

\* the for loop over var_symbols.items() that replaces julia_var by
\* symbol_line; a value that is a list has no replace
Inline(var_symbols, julia_var, symbol_line) ==
  [i \in 1..Len(var_symbols) |->
     IF ~(In("mul!", var_symbols[i].v) /\ ~Contains(symbol_line, "@view"))
     THEN [k |-> var_symbols[i].k,
           v |-> IF var_symbols[i].v.ty = "list" THEN Err("AttributeError")
                 ELSE JStr(Replace(var_symbols[i].v.s, julia_var, symbol_line))]
     ELSE var_symbols[i]]

\* one turn of the while loop: var_symbols.popitem(last=False) and what is
\* done with the item
PopItem(st) ==
  LET var_symbol_id == Head(st.var_symbols).k
      symbol_line == Head(st.var_symbols).v
      rest == Tail(st.var_symbols)
      julia_var == id_to_julia_variable(var_symbol_id, FALSE)
  IN IF In(" * ", symbol_line)
     THEN IF symbol_line.ty = "list"
          THEN [st EXCEPT !.var_symbols = rest, !.exc = Exc("AttributeError", "replace")]
          ELSE [st EXCEPT !.var_symbols = rest,
                          !.var_str = @ \o "mul!(" \o julia_var \o ", "
                                        \o Replace(symbol_line.s, " * ", ", ") \o ")\n"]
     ELSE IF \E x \in 1..Len(inlineable_symbols) : In(inlineable_symbols[x], symbol_line)
     THEN IF symbol_line.ty = "list"
          THEN [st EXCEPT !.var_symbols = rest, !.exc = Exc("TypeError", "replace")]
          ELSE LET inlined == Inline(rest, julia_var, symbol_line.s)
               IN IF \E i \in 1..Len(inlined) : IsErr(inlined[i].v)
                  THEN [st EXCEPT !.var_symbols = rest,
                                  !.exc = Exc("AttributeError", "replace")]
                  ELSE [st EXCEPT !.var_symbols = inlined]
     ELSE [st EXCEPT !.var_symbols = rest,
                     !.var_str = @ \o julia_var \o " .= " \o FormatValue(symbol_line)
                                   \o "\n"]

\* while var_symbols: ...
RECURSIVE While(_)
While(st) == IF st.var_symbols = <<>> \/ st.exc # NoExc THEN st ELSE While(PopItem(st))

\* the loop over var_symbol_sizes.items()
RECURSIVE CacheStr(_, _, _)
CacheStr(var_symbol_sizes, symbol_id, var_str) ==
  IF var_symbol_sizes = <<>> THEN ""
  ELSE LET julia_var == id_to_julia_variable(Head(var_symbol_sizes).k, FALSE)
       IN (IF Head(var_symbol_sizes).k # symbol_id /\ Contains(var_str, julia_var)
           THEN "   " \o julia_var \o " = zeros(" \o ToString(Head(var_symbol_sizes).v)
                  \o "),\n"
           ELSE "")
            \o CacheStr(Tail(var_symbol_sizes), symbol_id, var_str)

\* the text from the tables of to_julia and the var_str of the while loop
JuliaSource(nodes, symbol, funcname, tables, var_str0) ==
  LET var_str ==
        Replace("   " \o Replace(Replace(var_str0, "const", "c.const"), "cache", "c.cache"),
                "\n", "\n   ")
      const_and_cache_str ==
        "const cs=(\n" \o ConstantsStr(tables.constant_symbols)
          \o CacheStr(tables.variable_symbol_sizes, SymbolId(symbol), var_str) \o ")\n"
      julia_str0 ==
        "begin\nusing SparseArrays, LinearAlgebra\n\n" \o const_and_cache_str
          \o "\nfunction " \o funcname \o "_with_consts(dy, y, p, t, c)\n" \o var_str
      result_var == id_to_julia_variable(SymbolId(symbol), is_constant(nodes, symbol))
      julia_str1 ==
        IF is_constant(nodes, symbol) /\ Fold(nodes, symbol).ty = "num"
        THEN julia_str0 \o "\n   dy .= " \o ToString(Fold(nodes, symbol).v) \o "\n"
        ELSE Replace(julia_str0, "c." \o result_var, "dy")
  IN Replace(julia_str1 \o "end\n\n", "\n   end", "\nend")
       \o funcname \o "(dy, y, p, t) = " \o funcname \o "_with_consts(dy, y, p, t, cs)\n"
       \o "end"

\* what the while loop of get_julia_function does with the tables
JuliaWhile(tables) ==
  IF tables.exc # NoExc THEN [var_symbols |-> <<>>, var_str |-> "", exc |-> tables.exc]
  ELSE While([var_symbols |-> tables.variable_symbols, var_str |-> "", exc |-> NoExc])

\* get_julia_function(symbol, funcname): the exception raised or the text
\* returned
JuliaFunction(nodes, symbol, funcname, tables, w) ==
  [exc |-> w.exc,
   julia_str |-> IF w.exc # NoExc THEN ""
                 ELSE JuliaSource(nodes, symbol, funcname, tables, w.var_str)]

get_julia_function(nodes, symbol, funcname, threshold) ==
  JuliaFunction(nodes, symbol, funcname, to_julia(nodes, symbol, threshold),
                JuliaWhile(to_julia(nodes, symbol, threshold)))

\* ------------------------------------------------------ get_julia_mtk_model
\* a model: the roots of its equations and of its initial conditions, in
\* the order of its dictionaries, and the names of its input parameters
Model(rhs, algebraic, initial_conditions, input_parameters) ==
  [rhs |-> rhs, algebraic |-> algebraic, initial_conditions |-> initial_conditions,
   input_parameters |-> input_parameters]

\* the text for a model without equations and initial conditions
EmptyMtkStr(input_parameters) ==
  "begin\n@parameters t"
    \o JoinStr("", [i \in 1..Len(input_parameters) |-> " " \o input_parameters[i]])
    \o "\n@variables\n@derivatives D'~t\n\n\neqs = [\n]\n"
    \o "sys = ODESystem(eqs, t)\n\n\nu0 = [\n]\nend\n"

\* get_julia_mtk_model(model): the exception raised or the text returned,
\* and the print threshold after the call.  The first turn of the first
\* loop that has one calls to_julia and unpacks the three tables it returns
\* into two names
get_julia_mtk_model(nodes, model, threshold) ==
  LET eqns == model.rhs \o model.algebraic \o model.initial_conditions
  IN IF eqns = <<>>
     THEN [exc |-> NoExc, mtk_str |-> EmptyMtkStr(model.input_parameters),
           threshold |-> threshold]
     ELSE [exc |-> IF to_julia(nodes, eqns[1], threshold).exc # NoExc
                   THEN to_julia(nodes, eqns[1], threshold).exc
                   ELSE Exc("ValueError", "too many values to unpack (expected 2)"),
           mtk_str |-> "",
           threshold |-> to_julia(nodes, eqns[1], threshold).threshold]

\* ------------------------------------------------------------ the program
VARIABLES
  nodes,     \* the expression tree: its nodes, children before parents
  pc,        \* "tree", then "evaluator" or "raised", then "evaluated"
  tables,    \* what to_python built: the constant and the fragment table
  self,      \* the EvaluatorPython: _constants and _python_str
  args,      \* the arguments of the call of evaluate
  returned,  \* what evaluate returned
  kernel,    \* a call of a coordinate-matrix kernel: arguments and result
  printoptions  \* np.get_printoptions(), a setting of the process

vars == <<nodes, pc, tables, self, args, returned, kernel, printoptions>>

\* the leaves and operators the front end builds trees from
AllMasks == (SUBSET (0..(NY - 1))) \ {{}}
FullMask == 0..(NY - 1)
Masks == {{0}, {0, NY - 1}, FullMask}
ScalarValues == {2}
VectorEntries == [i \in 1..NY |-> i]
MatrixRows == [r \in 1..2 |-> [c \in 1..NY |-> IF (r + c) % 2 = 0 THEN r + c ELSE 0]]
IndexSlices == {<<0, 1>>, <<1, 3>>}

Leaves ==
  {Scalar(v) : v \in ScalarValues} \cup {Vector(VectorEntries), Matrix(MatrixRows)}
    \cup {StateVector(m) : m \in Masks}
    \cup {Time, InputParameter("a"), Variable("u")}

Operators(N) ==
  {OpNode(k, <<a, b>>) : k \in BinaryOperators, a \in N, b \in N}
    \cup {OpNode(k, <<a>>) :
            k \in {"Negate", "NumpyConcatenation", "SparseStack", "Concatenation",
                   "Unsupported"}, a \in N}
    \cup {Index(a, sl[1], sl[2]) : a \in N, sl \in IndexSlices}
    \cup {Function("absolute", TRUE, a) : a \in N}
    \cup {Function("myfunction", FALSE, a) : a \in N}
    \cup {OpNode(k, <<a, b>>) :
            k \in {"NumpyConcatenation", "SparseStack", "Concatenation"}, a \in N, b \in N}

\* a tree the front end can build: the shapes of the operands of every node
\* fit, and a constant subtree folds
WellFormed(ns, s) ==
  /\ ~IsErr(evaluate_for_shape(ns, s))
  /\ is_constant(ns, s) => ~IsErr(Fold(ns, s))

RECURSIVE Below(_, _)
Below(ns, s) ==
  {s} \cup UNION {Below(ns, ns[s].children[k]) : k \in 1..Len(ns[s].children)}

NoTables ==
  [exc |-> NoExc, constant_values |-> <<>>, variable_symbols |-> <<>>, python_str |-> <<>>]
NoEvaluator == [exc |-> NoExc, constants |-> <<>>, python_str |-> <<>>]
NoArgs == [via |-> "", t |-> 0, y |-> <<>>, inputs |-> NoInputs, known_evals |-> None]
NoReturn == [pair |-> FALSE, result |-> None, known_evals |-> None]
NoKernel == [op |-> "", self |-> None, b |-> None, blocks |-> None, result |-> None]

\* before anything is compiled or called
Fresh ==
  /\ pc = "tree"
  /\ tables = NoTables
  /\ self = NoEvaluator
  /\ args = NoArgs
  /\ returned = NoReturn
  /\ printoptions = [threshold |-> 1000]

Init ==
  /\ nodes = <<>>
  /\ Fresh
  /\ kernel = NoKernel

\* the front end adds a node to the tree
Build ==
  /\ pc = "tree"
  /\ Len(nodes) < MaxNodes
  /\ \E n \in Leaves \cup Operators(1..Len(nodes)) :
       /\ \A k \in 1..Len(nodes) : nodes[k] # n
       /\ WellFormed(Append(nodes, n), Len(nodes) + 1)
       /\ nodes' = Append(nodes, n)
  /\ UNCHANGED <<pc, tables, self, args, returned, kernel, printoptions>>

\* the root of the tree
Root == Len(nodes)

\* EvaluatorPython(symbol) for the root of the tree
NewEvaluatorPython ==
  /\ pc = "tree"
  /\ nodes # <<>>
  /\ Below(nodes, Root) = 1..Len(nodes)
  /\ LET e == EvaluatorPython_init(nodes, Root)
     IN /\ tables' = to_python(nodes, Root, FALSE, FALSE)
        /\ self' = e
        /\ pc' = IF e.exc = NoExc THEN "evaluator" ELSE "raised"
  /\ UNCHANGED <<nodes, args, returned, kernel, printoptions>>

\* the values evaluate is called with
Times == 0..MaxVal
States == [1..NY -> 0..MaxVal]
MappingInputs == {Inputs("dict", {"a"}, 1), Inputs("dict", {"b"}, 1), Inputs("dict", {}, 0)}
OtherInputs ==
  {NoInputs, Inputs("list", {}, 0), Inputs("ndarray", {}, 0), Inputs("str", {}, 0),
   Inputs("int", {}, 0)}
InputValues == MappingInputs \cup OtherInputs

\* the kinds whose generated code can be run
Runnable == Evaluable \cup {"DomainConcatenation"}

\* evaluator.evaluate(t, y, inputs=inputs), y an array of one dimension and
\* inputs one of Values
EvaluateWith(Values) ==
  /\ pc = "evaluator"
  /\ \A k \in 1..Len(nodes) : nodes[k].kind \in Runnable
  /\ \E t \in Times, y \in States, inputs \in Values :
       /\ args' = [via |-> "EvaluatorPython", t |-> t, y |-> y, inputs |-> inputs,
                   known_evals |-> None]
       /\ returned' = EvaluatorPython_evaluate(self, t, Arr1(y), inputs, None)
  /\ pc' = "evaluated"
  /\ UNCHANGED <<nodes, tables, self, kernel, printoptions>>

Evaluate == EvaluateWith({Inputs("dict", {"a"}, 1), NoInputs})

Next == Build \/ NewEvaluatorPython \/ Evaluate

Spec == Init /\ [][Next]_vars

\* ----------------------------------------------------- state vectors only
\* the trees of one state vector, and of two joined, over every mask
InitSV ==
  /\ nodes \in {<<StateVector(m)>> : m \in AllMasks}
               \cup {<<StateVector(m1), StateVector(m2),
                       OpNode("NumpyConcatenation", <<1, 2>>)>> :
                       m1 \in AllMasks, m2 \in AllMasks}
  /\ \A j, k \in 1..Len(nodes) : nodes[j] = nodes[k] => j = k
  /\ Fresh
  /\ kernel = NoKernel

NextSV == NewEvaluatorPython \/ Evaluate

SpecSV == InitSV /\ [][NextSV]_vars

\* ------------------------------------------------- domain concatenations
\* the repetitions of the secondary dimension
MaxReps == 2
\* the points of the mesh of one repetition
RepStride == 15
\* where a domain may start within a repetition
DomainStarts == {0, 5, 10}
\* the domains of the children: the first child has one, the second two
ChildDomains == <<<<1>>, <<2, 3>>>>
Domains == {1, 2, 3}

\* secondary_dimensions_npts, _children_slices and _slices of a
\* DomainConcatenation: a domain has one point in each repetition, a child
\* holds the points of its domains repetition after repetition, and the
\* concatenation has domain d of repetition i at starts[d][i]
DomainSlices(npts, starts) ==
  [npts |-> npts,
   cs |-> [k \in 1..Len(ChildDomains) |->
             [j \in 1..Len(ChildDomains[k]) |->
                [dom |-> ChildDomains[k][j],
                 sl |-> [i \in 1..npts |->
                           [start |-> (i - 1) * Len(ChildDomains[k]) + (j - 1),
                            stop |-> (i - 1) * Len(ChildDomains[k]) + j]]]]],
   sl |-> [d \in Domains |->
             [i \in 1..npts |-> [start |-> starts[d][i], stop |-> starts[d][i] + 1]]]]

InitDC ==
  /\ \E npts \in 1..MaxReps :
       \E starts \in [Domains -> [1..npts -> DomainStarts]] :
         nodes = <<StateVector(0..(npts - 1)),
                   Vector([i \in 1..(2 * npts) |-> i]),
                   DomainConcatenation(<<1, 2>>,
                     DomainSlices(npts,
                       [d \in Domains |->
                          [i \in 1..npts |-> (i - 1) * RepStride + starts[d][i]]]))>>
  /\ Fresh
  /\ kernel = NoKernel

NextDC == NewEvaluatorPython \/ Evaluate

SpecDC == InitDC /\ [][NextDC]_vars

\* ------------------------------------------------------- input parameters
InitInputs ==
  /\ nodes \in {<<InputParameter(name)>> : name \in {"a", "b"}}
  /\ Fresh
  /\ kernel = NoKernel

\* evaluator.evaluate with inputs of every type
EvaluateInputs == EvaluateWith(InputValues)

\* symbol.evaluate(t, y, inputs) on the tree itself
SymbolEvaluate ==
  /\ pc = "tree"
  /\ \E t \in Times, y \in States, inputs \in InputValues :
       /\ args' = [via |-> "Symbol", t |-> t, y |-> y, inputs |-> inputs,
                   known_evals |-> None]
       /\ returned' = [pair |-> FALSE, result |-> evaluate(nodes, Root, t, y, inputs),
                       known_evals |-> None]
  /\ pc' = "evaluated"
  /\ UNCHANGED <<nodes, tables, self, kernel, printoptions>>

NextInputs == NewEvaluatorPython \/ EvaluateInputs \/ SymbolEvaluate

SpecInputs == InitInputs /\ [][NextInputs]_vars

\* --------------------------------------------------- coordinate matrices
\* the non-zeros of a coordinate matrix
MaxNnz == 3
CooShape == <<2, 2>>
CooData == {1, 2, 3}

\* the coordinate matrices of CooShape with at most n non-zeros; a place may
\* come more than once
CooMatrices(n) ==
  UNION {{JaxCooMatrix(row, col, data, CooShape) :
            row \in [1..k -> 0..(CooShape[1] - 1)],
            col \in [1..k -> 0..(CooShape[2] - 1)],
            data \in [1..k -> CooData]} : k \in 0..n}

InitDot ==
  /\ nodes = <<>>
  /\ Fresh
  /\ \E m \in CooMatrices(MaxNnz), b \in [1..CooShape[2] -> 0..MaxVal] :
       kernel = [NoKernel EXCEPT !.self = m, !.b = Arr(b)]

\* kernel.self.dot_product(kernel.b)
DotProduct ==
  /\ kernel.op = ""
  /\ kernel' = [kernel EXCEPT !.op = "dot_product",
                              !.result = dot_product(kernel.self, kernel.b)]
  /\ UNCHANGED <<nodes, pc, tables, self, args, returned, printoptions>>

NextDot == DotProduct

SpecDot == InitDot /\ [][NextDot]_vars

InitVstack ==
  /\ nodes = <<>>
  /\ Fresh
  /\ \E ty \in {"tuple", "list", "ndarray"}, n \in 1..2 :
       \E ms \in [1..n -> CooMatrices(1)] :
         kernel = [NoKernel EXCEPT !.blocks = Blocks(ty, ms)]

\* jax_coo_vstack(kernel.blocks)
Vstack ==
  /\ kernel.op = ""
  /\ kernel' = [kernel EXCEPT !.op = "jax_coo_vstack",
                              !.result = jax_coo_vstack(kernel.blocks)]
  /\ UNCHANGED <<nodes, pc, tables, self, args, returned, printoptions>>

NextVstack == Vstack

SpecVstack == InitVstack /\ [][NextVstack]_vars

\* ------------------------------------------------------ the three evaluators
\* the calls of evaluate on one evaluator
MaxCalls == 2

\* trees of a view, a scattered view, an elementwise product with a
\* constant, a sum with the time, a product with an input, a product of two
\* views and a matrix-vector product
DropInTrees ==
  {<<StateVector(FullMask)>>,
   <<StateVector({0, NY - 1})>>,
   <<StateVector(FullMask), Vector(VectorEntries), OpNode("Multiplication", <<1, 2>>)>>,
   <<StateVector({0}), Time, OpNode("Addition", <<1, 2>>)>>,
   <<InputParameter("a"), StateVector(FullMask), OpNode("Multiplication", <<1, 2>>)>>,
   <<StateVector(FullMask), StateVector({0}), OpNode("Multiplication", <<1, 2>>)>>,
   <<Matrix(MatrixRows), StateVector(FullMask), OpNode("MatrixMultiplication", <<1, 2>>)>>}

InitDropIn ==
  /\ nodes \in DropInTrees
  /\ Fresh
  /\ kernel = NoKernel

\* EvaluatorJax(symbol) for the root of the tree
NewEvaluatorJax ==
  /\ pc = "tree"
  /\ nodes # <<>>
  /\ Below(nodes, Root) = 1..Len(nodes)
  /\ LET e == EvaluatorJax_init(nodes, Root)
     IN /\ tables' = to_python(nodes, Root, FALSE, TRUE)
        /\ self' = e
        /\ pc' = IF e.exc = NoExc THEN "evaluator" ELSE "raised"
  /\ UNCHANGED <<nodes, args, returned, kernel, printoptions>>

\* the class of the evaluator in self
EvaluatorClass(e) ==
  IF "jac_evaluate" \in DOMAIN e THEN "EvaluatorJaxJacobian"
  ELSE IF e.python_str # <<>> /\ e.python_str[1] = DefLineJax THEN "EvaluatorJax"
  ELSE "EvaluatorPython"

\* evaluator = evaluator.get_jacobian(): a new evaluator, not called yet
GetJacobian ==
  /\ pc \in {"evaluator", "evaluated"}
  /\ EvaluatorClass(self) = "EvaluatorJax"
  /\ self' = get_jacobian(self)
  /\ pc' = "evaluator"
  /\ UNCHANGED <<nodes, tables, args, returned, kernel, printoptions>>

\* the values of y and of known_evals a caller passes
Ys == {Arr1(y) : y \in States} \cup {Arr(y) : y \in States} \cup {None}
KnownEvals == [ty |-> "dict", v |-> <<>>]

\* the names of the input parameters of a tree
InputNames(ns) == {ns[i].name : i \in {j \in 1..Len(ns) : ns[j].kind = "InputParameter"}}

\* the calls of evaluate so far
Calls(a) == IF "calls" \in DOMAIN a THEN a.calls ELSE 0

\* evaluator.evaluate(t, y, None, inputs, known_evals) on any of the three
\* evaluators, call after call
CallEvaluate ==
  /\ pc \in {"evaluator", "evaluated"}
  /\ Calls(args) < MaxCalls
  /\ \E t \in Times, y \in Ys, known_evals \in {None, KnownEvals} :
       LET inputs == Inputs("dict", {"a"} \cup InputNames(nodes), 1)
           cls == EvaluatorClass(self)
       IN /\ args' = [via |-> cls, t |-> t, y |-> y, inputs |-> inputs,
                      known_evals |-> known_evals, calls |-> Calls(args) + 1]
          /\ returned' =
               CASE cls = "EvaluatorPython" ->
                      EvaluatorPython_evaluate(self, t, y, inputs, known_evals)
                 [] cls = "EvaluatorJax" ->
                      EvaluatorJax_evaluate(self, t, y, inputs, known_evals)
                 [] OTHER ->
                      EvaluatorJaxJacobian_evaluate(self, t, y, inputs, known_evals)
  /\ pc' = "evaluated"
  /\ UNCHANGED <<nodes, tables, self, kernel, printoptions>>

NextDropIn == NewEvaluatorPython \/ NewEvaluatorJax \/ GetJacobian \/ CallEvaluate

SpecDropIn == InitDropIn /\ [][NextDropIn]_vars

\* ------------------------------------------------------------ Backend B
\* the compilations of one run
MaxCompiles == 2

\* the print thresholds a process has: the default of numpy, and a small
\* one that a caller set
Thresholds == {5, 1000}

\* trees whose root is a view (of a run, of one entry, of scattered
\* entries), a constant (a vector, a number, a matrix), an elementwise
\* operation, a matrix-vector product, a function, a power, a negation, a
\* minimum, a function of a product, concatenations, trees with constant
\* subtrees of more than one node, the time, an input and a variable
JuliaTrees ==
  {<<StateVector(FullMask)>>,
   <<StateVector({0})>>,
   <<StateVector({0, NY - 1})>>,
   <<Vector(VectorEntries)>>,
   <<Scalar(2)>>,
   <<Matrix(MatrixRows)>>,
   <<StateVector(FullMask), Vector(VectorEntries), OpNode("Addition", <<1, 2>>)>>,
   <<StateVector(FullMask), Vector(VectorEntries), OpNode("Inner", <<1, 2>>)>>,
   <<Matrix(MatrixRows), StateVector(FullMask), OpNode("MatrixMultiplication", <<1, 2>>)>>,
   <<StateVector(FullMask), Function("absolute", TRUE, 1)>>,
   <<StateVector(FullMask), Scalar(2), OpNode("Power", <<1, 2>>)>>,
   <<StateVector(FullMask), OpNode("Negate", <<1>>)>>,
   <<StateVector(FullMask), Vector(VectorEntries), OpNode("Minimum", <<1, 2>>)>>,
   <<Matrix(MatrixRows), StateVector(FullMask), OpNode("MatrixMultiplication", <<1, 2>>),
     Function("absolute", TRUE, 3)>>,
   <<Matrix(MatrixRows), StateVector(FullMask), OpNode("MatrixMultiplication", <<1, 2>>),
     OpNode("MatrixMultiplication", <<1, 2>>), OpNode("Addition", <<3, 4>>)>>,
   <<StateVector(FullMask), StateVector({0}), OpNode("NumpyConcatenation", <<1, 2>>)>>,
   <<StateVector({0}),
     Vector(<<1, 2>>),
     DomainConcatenation(<<1, 2>>, DomainSlices(1, [d \in Domains |-> <<5 * (d - 1)>>]))>>,
   <<Vector(VectorEntries), OpNode("Negate", <<1>>)>>,
   <<Vector(VectorEntries), OpNode("Negate", <<1>>), StateVector(FullMask),
     OpNode("Addition", <<2, 3>>)>>,
   <<Scalar(2), OpNode("Negate", <<1>>), OpNode("Addition", <<1, 2>>),
     Function("absolute", TRUE, 3)>>,
   <<Scalar(2), OpNode("Negate", <<1>>), StateVector(FullMask),
     OpNode("Multiplication", <<2, 3>>)>>,
   <<Time>>,
   <<InputParameter("a")>>,
   <<Variable("u")>>,
   <<StateVector(FullMask), OpNode("Concatenation", <<1>>)>>}

InitJulia ==
  /\ nodes \in JuliaTrees
  /\ pc = "tree"
  /\ tables = NoTables
  /\ self = NoEvaluator
  /\ args = NoArgs
  /\ returned = NoReturn
  /\ kernel = NoKernel
  /\ printoptions \in {[threshold |-> th] : th \in Thresholds}

\* the compilations so far
Compiles(a) == IF "compiles" \in DOMAIN a THEN a.compiles ELSE 0

\* what a compilation leaves: the call and the print options before it, the
\* tables, what was returned or raised, and the print options after it
JuliaCompiled(via, t, r) ==
  /\ args' = [via |-> via, compiles |-> Compiles(args) + 1, before |-> printoptions]
  /\ tables' = t
  /\ returned' = r
  /\ printoptions' = [printoptions EXCEPT !.threshold = t.threshold]
  /\ pc' = "compiled"
  /\ UNCHANGED <<nodes, self, kernel>>

\* to_julia(symbol)
ToJulia ==
  /\ pc = "tree"
  /\ Compiles(args) < MaxCompiles
  /\ JuliaCompiled("to_julia", to_julia(nodes, Root, printoptions.threshold),
                   [exc |-> to_julia(nodes, Root, printoptions.threshold).exc, julia_str |-> ""])

\* get_julia_function(symbol)
GetJuliaFunction ==
  /\ pc = "tree"
  /\ Compiles(args) < MaxCompiles
  /\ JuliaCompiled("get_julia_function", to_julia(nodes, Root, printoptions.threshold),
                   get_julia_function(nodes, Root, "f", printoptions.threshold))

\* to_python(symbol)
ToPython ==
  /\ pc = "tree"
  /\ Compiles(args) < MaxCompiles
  /\ args' = [via |-> "to_python", compiles |-> Compiles(args) + 1, before |-> printoptions]
  /\ tables' = to_python(nodes, Root, FALSE, FALSE)
  /\ returned' = [exc |-> tables'.exc, julia_str |-> ""]
  /\ pc' = "compiled"
  /\ UNCHANGED <<nodes, self, kernel, printoptions>>

\* the models a caller makes of the tree: it is the right-hand side of an
\* equation, an algebraic equation or an initial condition
Models ==
  {Model(rhs, algebraic, initial_conditions, <<>>) :
     rhs \in {<<>>, <<Root>>}, algebraic \in {<<>>, <<Root>>},
     initial_conditions \in {<<>>, <<Root>>}}

\* get_julia_mtk_model(model)
GetJuliaMtkModel ==
  /\ pc = "tree"
  /\ Compiles(args) < MaxCompiles
  /\ \E model \in Models :
       LET r == get_julia_mtk_model(nodes, model, printoptions.threshold)
       IN /\ args' = [via |-> "get_julia_mtk_model", compiles |-> Compiles(args) + 1,
                      before |-> printoptions, model |-> model]
          /\ returned' = [exc |-> r.exc, julia_str |-> r.mtk_str]
          /\ printoptions' = [printoptions EXCEPT !.threshold = r.threshold]
  /\ pc' = "compiled"
  /\ UNCHANGED <<nodes, tables, self, kernel>>

\* the caller takes another tree
NextTree ==
  /\ pc = "compiled"
  /\ Compiles(args) < MaxCompiles
  /\ nodes' \in JuliaTrees
  /\ pc' = "tree"
  /\ UNCHANGED <<tables, self, args, returned, kernel, printoptions>>

NextJulia == ToPython \/ ToJulia \/ GetJuliaFunction \/ GetJuliaMtkModel \/ NextTree

SpecJulia == InitJulia /\ [][NextJulia]_vars

\* ----------------------------------------------------- input parameters
\* names of input parameters: plain, and with the texts that the backends
\* rewrite in their source
ParameterNames == {"a", "np.a", "constant", "cache"}

InitKeys ==
  /\ \E name \in ParameterNames :
       nodes \in {<<InputParameter(name)>>,
                  <<InputParameter(name), StateVector(FullMask),
                    OpNode("Multiplication", <<1, 2>>)>>}
  /\ Fresh
  /\ kernel = NoKernel

NextKeys == NewEvaluatorPython \/ NewEvaluatorJax \/ CallEvaluate \/ GetJuliaFunction

SpecKeys == InitKeys /\ [][NextKeys]_vars

\* ------------------------------------------------------- sparse operands
\* the operand pairs of a product or quotient: a sparse constant on the left,
\* on the right, on neither side, and a sparse product on the left of a
\* sparse constant
SparseKinds == {"Multiplication", "Inner", "Division"}

SparseTrees ==
  UNION {{<<Matrix(MatrixRows), Time, OpNode(k, <<1, 2>>)>>,
          <<Time, Matrix(MatrixRows), OpNode(k, <<1, 2>>)>>,
          <<StateVector({0}), Time, OpNode(k, <<1, 2>>)>>,
          <<Matrix(MatrixRows), Time, OpNode("Multiplication", <<1, 2>>),
            OpNode(k, <<3, 1>>)>>} : k \in SparseKinds}
    \cup {<<StateVector({})>>,
          <<StateVector({}), Time, OpNode("Addition", <<1, 2>>)>>}

InitSparse ==
  /\ nodes \in SparseTrees
  /\ Fresh
  /\ kernel = NoKernel

NextSparse == NewEvaluatorPython \/ NewEvaluatorJax \/ CallEvaluate

SpecSparse == InitSparse /\ [][NextSparse]_vars

\* ------------------------------------------------------- the inlining pass
\* a matrix of one row and one column, and a square matrix
OneByOne == <<<<2>>>>
SquareRows == [r \in 1..NY |-> [c \in 1..NY |-> IF r = c THEN 2 ELSE 0]]

\* the elementwise operations whose quotient need not be modelled
Elementwise == {"Addition", "Subtraction", "Multiplication"}

\* the children (a, b) in the order given, or swapped
Operands(a, b, swap) == IF swap THEN <<b, a>> ELSE <<a, b>>

\* A @ (((A @ y) op1 2) op2 3): an elementwise operation of a product and a
\* number, within another, within a product
InlineChain(op1, swap1, op2, swap2) ==
  <<Matrix(OneByOne), StateVector({0}), Scalar(2),
    OpNode("MatrixMultiplication", <<1, 2>>),
    OpNode(op1, Operands(4, 3, swap1)),
    Scalar(3),
    OpNode(op2, Operands(5, 6, swap2)),
    OpNode("MatrixMultiplication", <<1, 7>>)>>

InlineChains ==
  {InlineChain(op1, swap1, op2, swap2) :
     op1 \in Elementwise, swap1 \in BOOLEAN, op2 \in Elementwise, swap2 \in BOOLEAN}

\* trees whose root is a function, a power, a negation or an index of a
\* view, a function of a product, and a function of the sum of a product
\* and a number
InlineOperators ==
  {<<StateVector(FullMask), Function("absolute", TRUE, 1)>>,
   <<StateVector(FullMask), Scalar(2), OpNode("Power", <<1, 2>>)>>,
   <<StateVector(FullMask), OpNode("Negate", <<1>>)>>,
   <<StateVector(FullMask), Index(1, 1, 3)>>,
   <<Matrix(MatrixRows), StateVector(FullMask), OpNode("MatrixMultiplication", <<1, 2>>),
     Function("absolute", TRUE, 3)>>,
   <<Matrix(MatrixRows), StateVector(FullMask), Scalar(2),
     OpNode("MatrixMultiplication", <<1, 2>>), OpNode("Addition", <<4, 3>>),
     Function("absolute", TRUE, 5)>>,
   <<Matrix(MatrixRows), StateVector(FullMask), Scalar(2),
     OpNode("MatrixMultiplication", <<1, 2>>), OpNode("Negate", <<4>>),
     OpNode("Power", <<5, 3>>)>>}

\* concatenations of two views, of a product and a view, and of a variable
InlineConcatenations ==
  {<<StateVector(FullMask), StateVector({0}), OpNode("NumpyConcatenation", <<1, 2>>)>>,
   <<Matrix(MatrixRows), StateVector(FullMask), OpNode("MatrixMultiplication", <<1, 2>>),
     OpNode("NumpyConcatenation", <<3, 2>>)>>,
   <<Variable("u"), OpNode("NumpyConcatenation", <<1>>)>>}

\* A @ min(y + y, A @ y): the nodes whose ids are 12345 and 123456 both
\* have a fragment, and the name of the first is the beginning of the name
\* of the second
InlinePrefixes ==
  {<<StateVector(FullMask), Matrix(SquareRows), OpNode("Addition", <<1, 1>>),
     OpNode("MatrixMultiplication", <<2, 1>>), OpNode("Minimum", <<3, 4>>),
     OpNode("MatrixMultiplication", <<2, 5>>)>>}

InlineTrees ==
  InlineChains \cup InlineOperators \cup InlineConcatenations \cup InlinePrefixes

InitInline ==
  /\ nodes \in InlineTrees
  /\ pc = "tree"
  /\ tables = NoTables
  /\ self = NoEvaluator
  /\ args = NoArgs
  /\ returned = NoReturn
  /\ kernel = NoKernel
  /\ printoptions \in {[threshold |-> th] : th \in Thresholds}

NextInline == ToPython \/ ToJulia \/ GetJuliaFunction

SpecInline == InitInline /\ [][NextInline]_vars

\* ------------------------------------- orientation, indices and variables
\* products of a sparse matrix and a view of its rows, element by element:
\* what they evaluate to has as many columns as the matrix
OrientationTrees ==
  {<<Matrix(SquareRows), StateVector(FullMask), OpNode("Multiplication", <<1, 2>>)>>,
   <<Matrix(SquareRows), StateVector(FullMask), OpNode("Multiplication", <<2, 1>>)>>,
   <<Matrix(MatrixRows), StateVector({0, NY - 1}), OpNode("Multiplication", <<1, 2>>)>>,
   <<Matrix(SquareRows), StateVector(FullMask), OpNode("Inner", <<1, 2>>)>>,
   <<Matrix(SquareRows), StateVector(FullMask), OpNode("Multiplication", <<1, 2>>),
     OpNode("Negate", <<3>>)>>}

\* every slice of the state vector
AllSlices == UNION {{<<lo, hi>> : hi \in (lo + 1)..NY} : lo \in 0..(NY - 1)}

\* a state vector; an index of a view, of a scattered selection and of a
\* product
IndexTrees ==
  {<<StateVector(mask)>> : mask \in AllMasks}
    \cup {<<StateVector(FullMask), Index(1, sl[1], sl[2])>> : sl \in AllSlices}
    \cup {<<StateVector({0, NY - 1}), Index(1, 0, 1)>>}
    \cup {<<Matrix(SquareRows), StateVector(FullMask),
            OpNode("MatrixMultiplication", <<1, 2>>), Index(3, sl[1], sl[2])>> :
            sl \in AllSlices}

\* a variable, alone and below an operator, a function and a concatenation
VariableTrees ==
  {<<Variable("u")>>,
   <<Variable("u"), OpNode("Negate", <<1>>)>>,
   <<Variable("u"), Function("absolute", TRUE, 1)>>,
   <<Variable("u"), StateVector({0}), OpNode("Addition", <<1, 2>>)>>,
   <<StateVector({0, NY - 1}), Variable("u"), OpNode("Addition", <<1, 2>>)>>,
   <<Variable("u"), OpNode("NumpyConcatenation", <<1>>)>>}

BackendTrees == OrientationTrees \cup IndexTrees \cup VariableTrees

InitBackends ==
  /\ nodes \in BackendTrees
  /\ pc = "tree"
  /\ tables = NoTables
  /\ self = NoEvaluator
  /\ args = NoArgs
  /\ returned = NoReturn
  /\ kernel = NoKernel
  /\ printoptions \in {[threshold |-> th] : th \in Thresholds}

NextBackends == ToPython \/ ToJulia \/ GetJuliaFunction

SpecBackends == InitBackends /\ [][NextBackends]_vars

\* ------------------------------------------------- bindings of constants
\* a second constant vector, and one of as many entries as MatrixRows has rows
OtherEntries == [i \in 1..NY |-> i + 1]
PairEntries == <<1, 2>>

\* trees with no constant, with one (alone, used once, used twice), with
\* two, and with three of which one is the index array of a scattered view
ConstantTrees ==
  {<<StateVector(FullMask)>>,
   <<Vector(VectorEntries)>>,
   <<Matrix(SquareRows)>>,
   <<Vector(VectorEntries), StateVector(FullMask), OpNode("Addition", <<1, 2>>),
     OpNode("Multiplication", <<3, 1>>)>>,
   <<Matrix(MatrixRows), StateVector(FullMask), OpNode("MatrixMultiplication", <<1, 2>>),
     StateVector({0, NY - 1}), OpNode("Addition", <<3, 4>>)>>,
   <<Matrix(MatrixRows), StateVector(FullMask), OpNode("MatrixMultiplication", <<1, 2>>),
     StateVector({0, NY - 1}), OpNode("Addition", <<3, 4>>), Vector(PairEntries),
     OpNode("Multiplication", <<5, 6>>)>>}
    \cup UNION {{<<Vector(VectorEntries), StateVector(FullMask), OpNode(k, <<1, 2>>)>>,
                 <<StateVector(FullMask), Vector(VectorEntries), OpNode(k, <<1, 2>>)>>,
                 <<Matrix(SquareRows), StateVector(FullMask),
                   OpNode("MatrixMultiplication", <<1, 2>>), Vector(VectorEntries),
                   OpNode(k, <<3, 4>>)>>,
                 <<Vector(VectorEntries), StateVector(FullMask), OpNode(k, <<1, 2>>),
                   Vector(OtherEntries), OpNode(k, <<4, 3>>)>>} : k \in Elementwise}

InitConstants ==
  /\ nodes \in ConstantTrees
  /\ Fresh
  /\ kernel = NoKernel

NextConstants == NewEvaluatorPython \/ NewEvaluatorJax \/ CallEvaluate

SpecConstants == InitConstants /\ [][NextConstants]_vars

\* ---------------------------------------------------- what the code reads
\* the lines of the generated function: a binding of a constant, a fragment
\* statement, the return
IsBindingLine(line) ==
  Len(line) = 5 /\ line[1] = L("   ") /\ line[2].k = "const" /\ line[3] = L(" = constants[")
IsFragmentLine(line) ==
  Len(line) >= 4 /\ line[1] = L("   ") /\ line[2].k = "var" /\ line[3] = L(" = ")
IsReturnLine(line) == Len(line) = 2 /\ line[1] = L("   return ")
\* the name a line assigns, and the names of a kind it reads
Assigned(line) == line[2].s
Reads(line, kind) == {line[j].s : j \in {i \in 4..Len(line) : line[i].k = kind}}
FragmentLines(code) == {i \in 1..Len(code) : IsFragmentLine(code[i])}

Compiled == pc \in {"evaluator", "evaluated"}

\* the number of places (parent, position) that refer to node s
ParentPositions(ns, s) ==
  Cardinality({pk \in (1..Len(ns)) \X (1..2) :
                 pk[2] <= Len(ns[pk[1]].children) /\ ns[pk[1]].children[pk[2]] = s})

\* ------------------------------------------------------------------ C1
\* C1 (round trip): for every tree of kinds whose evaluation is modelled and
\* every (t, y, inputs), running the statement list EvaluatorPython assembled
\* (the bindings of the constants, the fragments in table order, the return)
\* gives the value symbol.evaluate(t, y, inputs) gives; where the tree's own
\* evaluation raises, so does the generated code.
RoundTrip ==
  (pc = "evaluated" /\ \A k \in 1..Len(nodes) : nodes[k].kind \in Evaluable) =>
    LET direct == evaluate(nodes, Root, args.t, args.y, args.inputs)
    IN IF IsErr(direct) THEN IsErr(returned.result) ELSE returned.result = direct

\* a sparse matrix times a state vector has been compiled and run on a y
\* that is not zero, and the column returned is the tree's own
RoundTripWitness ==
  /\ pc = "evaluated"
  /\ nodes[Root].kind = "MatrixMultiplication"
  /\ nodes[nodes[Root].children[2]].kind = "StateVector"
  /\ returned.result.ty = "arr"
  /\ \E i \in 1..Len(returned.result.v) : returned.result.v[i] > 0
  /\ returned.result = evaluate(nodes, Root, args.t, args.y, args.inputs)

\* ------------------------------------------------------------------ C2
\* the entries of the fragment table for node s, and the lines of the code
\* that assign its variable
FragmentEntries(s) ==
  {i \in 1..Len(tables.variable_symbols) : tables.variable_symbols[i].k = SymbolId(s)}
AssignmentLines(s) ==
  {i \in 1..Len(self.python_str) :
     /\ Len(self.python_str[i]) >= 3
     /\ Text(SubSeq(self.python_str[i], 1, 3))
          = "   " \o id_to_python_variable(SymbolId(s), FALSE) \o " = "}

\* C2 (common subexpressions): a subtree that is not constant and that two
\* or more parent positions refer to has exactly one entry in the fragment
\* table, and the assembled code has exactly one statement that assigns its
\* variable.
SharedOnce ==
  Compiled =>
    \A s \in 1..Len(nodes) :
      (~is_constant(nodes, s) /\ ParentPositions(nodes, s) >= 2) =>
        /\ Cardinality(FragmentEntries(s)) = 1
        /\ Cardinality(AssignmentLines(s)) = 1

\* a tree is compiled in which two different parents share a subtree
SharedOnceWitness ==
  /\ Compiled
  /\ \E s \in 1..Len(nodes) :
       /\ ~is_constant(nodes, s)
       /\ \E p, q \in 1..Len(nodes) :
            /\ p # q
            /\ \E k \in 1..Len(nodes[p].children) : nodes[p].children[k] = s
            /\ \E k \in 1..Len(nodes[q].children) : nodes[q].children[k] = s
       /\ Cardinality(FragmentEntries(s)) = 1
       /\ Cardinality(AssignmentLines(s)) = 1

\* ------------------------------------------------------------------ C3
\* C3 (definition before use): in the assembled code every var_ name a
\* fragment statement reads is assigned by a strictly earlier statement, and
\* every const_ name it reads is the name of a key of the constant table and
\* is bound before the first fragment statement.
DefinedBeforeUse ==
  Compiled =>
    LET code == self.python_str
        consts == tables.constant_values
    IN \A i \in FragmentLines(code) :
         /\ \A name \in Reads(code[i], "var") :
              \E j \in 1..(i - 1) : IsFragmentLine(code[j]) /\ Assigned(code[j]) = name
         /\ \A name \in Reads(code[i], "const") :
              /\ \E c \in 1..Len(consts) : id_to_python_variable(consts[c].k, TRUE) = name
              /\ \E j \in 1..Len(code) :
                   /\ IsBindingLine(code[j])
                   /\ Assigned(code[j]) = name
                   /\ \A f \in FragmentLines(code) : j < f

\* a statement of the compiled code reads a fragment and a constant
DefinedBeforeUseWitness ==
  /\ Compiled
  /\ \E i \in FragmentLines(self.python_str) :
       /\ Reads(self.python_str[i], "var") # {}
       /\ Reads(self.python_str[i], "const") # {}

\* ------------------------------------------------------------------ C4
\* the return statement of the generated function
ReturnText ==
  Text(self.python_str[CHOOSE i \in 1..Len(self.python_str) :
                         IsReturnLine(self.python_str[i])])

\* C4 (constant roots): when the root is constant the function has no
\* fragment statement and returns the bare literal if the fold is a number,
\* otherwise the constant of the root's id, and what it returns is the fold
\* whatever (t, y, inputs) are; when the root is not constant it returns the
\* variable named from the root's id.
ConstantRoot ==
  Compiled =>
    LET fold == Fold(nodes, Root)
    IN IF is_constant(nodes, Root)
       THEN /\ FragmentLines(self.python_str) = {}
            /\ IF fold.ty = "num"
               THEN ReturnText = "   return " \o ToString(fold.v)
               ELSE /\ ReturnText
                         = "   return " \o id_to_python_variable(SymbolId(Root), TRUE)
                    /\ DictHas(tables.constant_values, SymbolId(Root))
                    /\ DictGet(tables.constant_values, SymbolId(Root)) = fold
            /\ pc = "evaluated" => returned.result = fold
       ELSE ReturnText = "   return " \o id_to_python_variable(SymbolId(Root), FALSE)

\* a product of constants has been folded, and the function was called at
\* t = 1 with a y that is not zero
ConstantRootWitness ==
  /\ pc = "evaluated"
  /\ is_constant(nodes, Root)
  /\ nodes[Root].kind = "Multiplication"
  /\ args.t = 1
  /\ \E i \in 1..NY : args.y[i] # 0
  /\ returned.result = Fold(nodes, Root)

\* ------------------------------------------------------------------ C8
\* the kinds the compiler has rules for, and Variable, which it knows
ClosedSet ==
  {"Scalar", "Vector", "Matrix", "Function", "NumpyConcatenation", "SparseStack",
   "DomainConcatenation", "StateVector", "Time", "InputParameter", "Variable"}
    \cup BinaryOperators \cup UnaryOperators

\* C8 (unsupported kinds): compiling a tree with a node of a kind outside
\* the closed set raises NotImplementedError with a message that names the
\* kind of such a node, and leaves no source text and no callable.  (Trees
\* with a Variable are left aside: it is of the closed set and has no rule.)
UnsupportedRejected ==
  LET outside == {k \in 1..Len(nodes) : nodes[k].kind \notin ClosedSet}
  IN (pc # "tree" /\ outside # {} /\ \A k \in 1..Len(nodes) : nodes[k].kind # "Variable") =>
       /\ pc = "raised"
       /\ self.exc.type = "NotImplementedError"
       /\ \E k \in outside :
            self.exc.msg = "Not implemented for a symbol of type '" \o nodes[k].kind \o "'"
       /\ self.python_str = <<>>

\* ------------------------------------------------------------------ C5
\* the least and the greatest element of a set of integers
Min(S) == CHOOSE x \in S : \A z \in S : x <= z
Max(S) == CHOOSE x \in S : \A z \in S : x >= z

\* the true indices of a mask are a run i, i+1, ..., i+k-1
Contiguous(mask) ==
  mask # {} /\ \A i \in (Min(mask))..(Max(mask)) : i \in mask

\* the constants of the table that hold exactly the index array of a mask
IndexConstants(mask) ==
  {c \in 1..Len(tables.constant_values) :
     tables.constant_values[c].v = IdxArr(Ascending(mask))}

\* C5 (contiguous state vectors): the fragment of a state vector whose true
\* indices are the run [i, i+k) is the text y[i:i+k] and the mask adds no
\* constant; for any other mask the constant table gets exactly one index
\* array, of the true indices in ascending order, and the fragment is
\* y[<the name of that constant>].  (The constant table of these trees holds
\* nothing but the constants of the state vectors.)
StateVectorFragment ==
  Compiled =>
    /\ \A s \in 1..Len(nodes) :
         nodes[s].kind = "StateVector" =>
           LET mask == nodes[s].mask
               fragment == Text(DictGet(tables.variable_symbols, SymbolId(s)))
           IN IF Contiguous(mask)
              THEN /\ fragment = "y[" \o ToString(Min(mask)) \o ":"
                                   \o ToString(Max(mask) + 1) \o "]"
                   /\ IndexConstants(mask) = {}
              ELSE /\ Cardinality(IndexConstants(mask)) = 1
                   /\ \A c \in IndexConstants(mask) :
                        fragment = "y[" \o id_to_python_variable(
                                             tables.constant_values[c].k, TRUE) \o "]"
    /\ Len(tables.constant_values)
         = Cardinality({s \in 1..Len(nodes) :
                          nodes[s].kind = "StateVector" /\ ~Contiguous(nodes[s].mask)})

\* a run of more than one index and a scattered mask have been compiled
\* together, and the code was run
StateVectorFragmentWitness ==
  /\ pc = "evaluated"
  /\ Len(nodes) = 3
  /\ Contiguous(nodes[1].mask) /\ Cardinality(nodes[1].mask) > 1
  /\ ~Contiguous(nodes[2].mask)
  /\ Len(tables.constant_values) = 1
  /\ returned.result = evaluate(nodes, Root, args.t, args.y, args.inputs)

\* ------------------------------------------------------------------ C6
\* the sub-fragments of the concatenation of the root, in the order emitted
SubFragments ==
  LET fragment == DictGet(tables.variable_symbols, SymbolId(Root))
  IN SplitArgs(SubSeq(fragment, 2, Len(fragment) - 1), <<>>)

\* the places (child, domain of the child) of a domain concatenation
Places(dc) == {kj \in (1..Len(dc.cs)) \X (1..3) : kj[2] <= Len(dc.cs[kj[1]])}

\* the text of the slice of place kj in repetition i (0-based)
SliceText(kj, i) ==
  LET sl == nodes[Root].dc.cs[kj[1]][kj[2]].sl[i + 1]
  IN Text(<<ChildVar(nodes, nodes[Root].children[kj[1]])>>)
       \o "[" \o ToString(sl.start) \o ":" \o ToString(sl.stop) \o "]"

\* the slice start the concatenation declares for the domain of place kj in
\* repetition i
DeclaredStart(kj, i) ==
  nodes[Root].dc.sl[nodes[Root].dc.cs[kj[1]][kj[2]].dom][i + 1].start

\* C6 (domain order): in every repetition i, the sub-fragments emitted are
\* the slices of repetition i, each keyed by the start its own domain
\* declares for repetition i, in ascending order of that key.
DomainOrder ==
  (Compiled /\ nodes[Root].kind = "DomainConcatenation") =>
    LET dc == nodes[Root].dc
        nd == Cardinality(Places(dc))
        Owner(i, p) == CHOOSE kj \in Places(dc) :
                         Text(SubFragments[i * nd + p]) = SliceText(kj, i)
    IN /\ Len(SubFragments) = dc.npts * nd
       /\ \A i \in 0..(dc.npts - 1) :
            /\ \A p \in 1..nd :
                 \E kj \in Places(dc) : Text(SubFragments[i * nd + p]) = SliceText(kj, i)
            /\ \A p, q \in 1..nd :
                 p < q => DeclaredStart(Owner(i, p), i) <= DeclaredStart(Owner(i, q), i)

\* ------------------------------------------------------------------ C7
\* C7 (inputs of an input parameter): evaluating an InputParameter, through
\* InputParameter.evaluate or through the compiled inputs['name'], raises
\* TypeError when inputs is no mapping (None, a list, an array, a string, a
\* number), raises KeyError when inputs is a mapping without the name, and
\* returns the entry when it has the name.
InputFailureMode ==
  (pc = "evaluated" /\ nodes[Root].kind = "InputParameter") =>
    CASE args.inputs.ty # "dict" -> returned.result = Err("TypeError")
      [] nodes[Root].name \notin args.inputs.keys -> returned.result = Err("KeyError")
      [] OTHER -> returned.result = Num(args.inputs.val)

\* ------------------------------------------------------------------ C9
\* the sum of data[k] * b[col[k]] over the non-zeros k of row r (0-based)
RowSum(m, b, r) ==
  SumSeq([k \in 1..Len(m.data) |->
            IF m.row[k] = r THEN m.data[k] * b[m.col[k] + 1] ELSE 0])

\* C9 (scatter-add): dot_product(b) returns a column of shape[0] entries,
\* entry r the sum of data[k] * b[col[k]] over the non-zeros k of row r;
\* a row that comes more than once adds up and a row without non-zero is 0.
ScatterAddSums ==
  kernel.op = "dot_product" =>
    /\ kernel.result.ty = "arr"
    /\ Len(kernel.result.v) = kernel.self.v.shape[1]
    /\ \A r \in 1..kernel.self.v.shape[1] :
         kernel.result.v[r] = RowSum(kernel.self.v, kernel.b.v, r - 1)

\* rows [0,0,1], cols [0,1,0], data [1,2,3] and b = [1,1] gave [3,3]
ScatterAddSumsWitness ==
  /\ kernel.op = "dot_product"
  /\ kernel.self = JaxCooMatrix(<<0, 0, 1>>, <<0, 1, 0>>, <<1, 2, 3>>, <<2, 2>>)
  /\ kernel.b = Arr(<<1, 1>>)
  /\ kernel.result = Arr(<<3, 3>>)

\* ----------------------------------------------------------------- C10
\* the rows of the blocks before block i
RowsBefore(ms, i) == SumSeq([j \in 1..(i - 1) |-> ms[j].v.shape[1]])
NnzBefore(ms, i) == SumSeq([j \in 1..(i - 1) |-> ms[j].v.nnz])

\* C10 (vstack): jax_coo_vstack of a sequence of blocks that is not empty
\* returns one coordinate matrix: its rows are the rows of the blocks summed,
\* its non-zeros their non-zeros summed, and the entries of block i keep their
\* data and have the rows of blocks 0..i-1 added to their row indices.
VstackStacks ==
  kernel.op = "jax_coo_vstack" =>
    LET ms == kernel.blocks.v
        out == kernel.result
    IN /\ out.ty = "coo"
       /\ out.v.shape[1] = RowsBefore(ms, Len(ms) + 1)
       /\ out.v.nnz = NnzBefore(ms, Len(ms) + 1)
       /\ \A i \in 1..Len(ms) : \A e \in 1..ms[i].v.nnz :
            /\ out.v.data[NnzBefore(ms, i) + e] = ms[i].v.data[e]
            /\ out.v.row[NnzBefore(ms, i) + e] = ms[i].v.row[e] + RowsBefore(ms, i)

\* ----------------------------------------------------------------- C11
\* C11 (drop-in evaluate): on each of the three evaluators, evaluate gives
\* what the compiled function gives for y as a column (for the jacobian,
\* reshaped to two dimensions), also when y came with one dimension; it
\* returns the bare result when known_evals is None and otherwise the pair
\* of the result and the known_evals it was given; and the stored constants
\* are those of the construction after any number of calls.
DropIn ==
  (pc = "evaluated" /\ "calls" \in DOMAIN args) =>
    LET column == IF args.y.ty = "arr1" THEN Arr(args.y.v) ELSE args.y
        constants == [i \in 1..Len(tables.constant_values) |->
                        tables.constant_values[i].v]
        result ==
          IF args.via = "EvaluatorJaxJacobian"
          THEN Reshape2(jac_evaluate(self.jac_evaluate, constants, args.t, column,
                                     args.inputs))
          ELSE RunLines(self.python_str, <<>>, constants, args.t, column, args.inputs)
    IN /\ returned.result = result
       /\ returned.pair = (args.known_evals # None)
       /\ returned.known_evals = args.known_evals
       /\ self.constants = constants

\* the second call on the jacobian of the matrix-vector product, with y of
\* one dimension and known_evals given, returned the pair with the matrix
DropInWitness ==
  /\ pc = "evaluated"
  /\ Calls(args) = MaxCalls
  /\ args.via = "EvaluatorJaxJacobian"
  /\ args.y.ty = "arr1"
  /\ args.known_evals = KnownEvals
  /\ returned.pair
  /\ returned.known_evals = KnownEvals
  /\ returned.result = NdArray(<<2, NY>>, MatrixRows[1] \o MatrixRows[2])

\* ----------------------------------------------------------------- C12
\* the lines of a text
RECURSIVE SplitLines(_)
SplitLines(s) ==
  IF ~Contains(s, "\n") THEN <<s>>
  ELSE LET i == CHOOSE x \in Occurrences(s, "\n") : \A z \in Occurrences(s, "\n") : x <= z
       IN <<SubSeq(s, 1, i - 1)>> \o SplitLines(SubSeq(s, i + 1, Len(s)))

\* the lines of the body of the function f_with_consts of a text
FunctionBody(julia_str) ==
  LET lines == SplitLines(julia_str)
      def == CHOOSE i \in 1..Len(lines) : StartsWith(lines[i], "function ")
      end == CHOOSE i \in (def + 1)..Len(lines) :
               lines[i] = "end" /\ \A j \in (def + 1)..(i - 1) : lines[j] # "end"
  IN SubSeq(lines, def + 1, end - 1)

\* a statement that writes dy: an assignment to it or a multiply into it
WritesDy(line) == StartsWith(line, "   dy .= ") \/ StartsWith(line, "   mul!(dy, ")

\* C12 (result delivery): the body of the function that get_julia_function
\* returns has a statement that writes the value of the root into dy, also
\* when the root is a view or an elementwise operation, and when it folds to
\* a constant that is not a number.
ResultDelivered ==
  (pc = "compiled" /\ args.via = "get_julia_function" /\ returned.exc = NoExc) =>
    \E i \in DOMAIN FunctionBody(returned.julia_str) :
      WritesDy(FunctionBody(returned.julia_str)[i])

\* ----------------------------------------------------------------- C13
\* the subtree folds to a bare number
FoldsToNumber(ns, s) == is_constant(ns, s) /\ Fold(ns, s).ty = "num"

\* C13 (model-structure error): get_julia_mtk_model fails with ModelError,
\* and with no other kind of error, for a model with an initial condition
\* that does not fold to a bare number, and returns the text for a model
\* whose equations and initial conditions all compile.
MtkModelError ==
  (pc = "compiled" /\ args.via = "get_julia_mtk_model") =>
    LET model == args.model
        eqns == model.rhs \o model.algebraic
        ics == model.initial_conditions
    IN /\ (\E i \in 1..Len(ics) : ~FoldsToNumber(nodes, ics[i])) =>
            returned.exc.type = "ModelError"
       /\ ((\A i \in 1..Len(eqns) :
              to_julia(nodes, eqns[i], args.before.threshold).exc = NoExc)
           /\ (\A i \in 1..Len(ics) : FoldsToNumber(nodes, ics[i]))) =>
            returned.exc = NoExc

\* ----------------------------------------------------------------- C14
\* the keys that the lines of a python text look up in inputs
KeysOf(line) == {line[k].s : k \in {j \in 1..Len(line) : line[j].k = "key"}}
LookupKeys(code) == UNION {KeysOf(code[i]) : i \in 1..Len(code)}

\* C14 (input-parameter lookup key): in the final source of every backend
\* the key that looks up an InputParameter is the declared name of the
\* node, character for character, whatever the name.
KeyIsName ==
  /\ pc \in {"evaluator", "evaluated"} =>
       LookupKeys(self.python_str) = InputNames(nodes)
  /\ (pc = "compiled" /\ returned.exc = NoExc) =>
       \A name \in InputNames(nodes) :
         Contains(returned.julia_str, "inputs['" \o name \o "']")

\* ----------------------------------------------------------------- C15
\* C15 (no shared mutable state): a call of to_python, to_julia or
\* get_julia_function, whatever was compiled before it, gives the tables
\* and the source that the call gives in a new process, and leaves the
\* settings of the process as they were before the call.
NoSharedState ==
  (pc = "compiled" /\ args.via \in {"to_python", "to_julia", "get_julia_function"}) =>
    /\ printoptions = args.before
    /\ args.via = "to_python" => tables = to_python(nodes, Root, FALSE, FALSE)
    /\ args.via # "to_python" =>
         \A th \in Thresholds :
           /\ tables.constant_symbols = to_julia(nodes, Root, th).constant_symbols
           /\ tables.variable_symbols = to_julia(nodes, Root, th).variable_symbols
           /\ tables.variable_symbol_sizes = to_julia(nodes, Root, th).variable_symbol_sizes
           /\ args.via = "get_julia_function" =>
                returned = get_julia_function(nodes, Root, "f", th)

\* ----------------------------------------------------------------- C16
\* find_symbols called once more on node s with the tables of the compilation
Revisited(s) ==
  find_symbols(nodes, s, Tables(tables.constant_values, tables.variable_symbols, NoExc),
               FALSE)

\* the id of node s is a key of the constant table or of the fragment table
Present(s) ==
  \/ DictHas(tables.constant_values, SymbolId(s))
  \/ DictHas(tables.variable_symbols, SymbolId(s))

\* C16 (re-visit is a no-op): find_symbols on a node whose id is already in
\* the constant table or in the fragment table leaves both tables with the
\* same keys, in the same order, with the same values, whatever the kind of
\* the node.
RevisitNoOp ==
  Compiled =>
    \A s \in 1..Len(nodes) :
      Present(s) =>
        /\ Revisited(s).constant_symbols = tables.constant_values
        /\ Revisited(s).variable_symbols = tables.variable_symbols
        /\ Revisited(s).exc = NoExc

\* an opaque function of a scattered state vector is compiled, each of the
\* two has written a constant and a fragment, and both are visited again
RevisitNoOpWitness ==
  /\ Compiled
  /\ nodes = <<StateVector({0, NY - 1}), Function("myfunction", FALSE, 1)>>
  /\ Len(tables.constant_values) = 2
  /\ Len(tables.variable_symbols) = 2
  /\ \A s \in 1..2 : Present(s) /\ Revisited(s).variable_symbols = tables.variable_symbols

\* ----------------------------------------------------------------- C17
\* the nodes that the traversal from s visits: it does not go below a
\* constant node
RECURSIVE Visited(_, _)
Visited(ns, s) ==
  {s} \cup (IF is_constant(ns, s) THEN {}
            ELSE UNION {Visited(ns, ns[s].children[k]) : k \in 1..Len(ns[s].children)})

\* the constant table of the compilation
ConstantTable ==
  IF args.via = "to_python" THEN tables.constant_values ELSE tables.constant_symbols

\* the fragment of node p refers to its constant child c by the text of the
\* number it folds to, or else by the const_ name of its id
RefersTo(p, c) ==
  LET symbol_str == DictGet(tables.variable_symbols, SymbolId(p))
      number == Fold(nodes, c).ty = "num"
      literal == ToString(Fold(nodes, c).v)
      const == "const_" \o (IF SymbolId(c) < 0 THEN "m" ELSE "")
                 \o Format05d(SymbolId(c)).digits
  IN IF args.via = "to_python"
     THEN \E j \in 1..Len(symbol_str) :
            IF number THEN symbol_str[j].k = "num" /\ symbol_str[j].s = literal
            ELSE symbol_str[j].k = "const" /\ symbol_str[j].s = const
     ELSE IF symbol_str.ty = "list"
     THEN \E j \in 1..Len(symbol_str.items) :
            symbol_str.items[j] = (IF number THEN literal ELSE const)
     ELSE Contains(symbol_str.s, IF number THEN literal ELSE const)

\* C17 (constant handling in traversal): in both backends a visit of a
\* constant node adds no fragment and visits none of its children; it adds
\* an entry to the constant table under the id of the node exactly when the
\* node folds to something other than a bare number; and a parent refers to
\* a constant child by its literal text when it folds to a number and by
\* the const_ name of its id otherwise.
ConstantHandling ==
  (pc = "compiled" /\ args.via \in {"to_python", "to_julia"} /\ tables.exc = NoExc) =>
    \A s \in 1..Len(nodes) :
      /\ is_constant(nodes, s) =>
           /\ ~DictHas(tables.variable_symbols, SymbolId(s))
           /\ DictHas(ConstantTable, SymbolId(s))
                <=> (s \in Visited(nodes, Root) /\ Fold(nodes, s).ty # "num")
      /\ (s \in Visited(nodes, Root) /\ ~is_constant(nodes, s)
            /\ nodes[s].kind # "Variable") =>
           \A k \in 1..Len(nodes[s].children) :
             is_constant(nodes, nodes[s].children[k]) => RefersTo(s, nodes[s].children[k])

\* to_julia has compiled the sum of a state vector and the negation of a
\* constant vector: the negation has its entry and the vector below it none
ConstantHandlingWitness ==
  /\ pc = "compiled"
  /\ args.via = "to_julia"
  /\ tables.exc = NoExc
  /\ Len(nodes) = 4
  /\ nodes[1].kind = "Vector" /\ nodes[2].kind = "Negate" /\ nodes[4].kind = "Addition"
  /\ DictKeys(tables.constant_symbols) = <<SymbolId(2)>>
  /\ DictGet(tables.variable_symbols, SymbolId(4)).s = "const_m0007 .+ cache_12345"

\* ----------------------------------------------------------------- C18
\* the fragment is the call of a method of a on b: a.<method>(b)
IsMethodCall(symbol_str, a, b) ==
  /\ Len(symbol_str) = 4
  /\ symbol_str[1] = a
  /\ symbol_str[2].k = "lit"
  /\ StartsWith(symbol_str[2].s, ".")
  /\ SubSeq(symbol_str[2].s, Len(symbol_str[2].s), Len(symbol_str[2].s)) = "("
  /\ symbol_str[3] = b
  /\ symbol_str[4] = L(")")

\* the products of the tree that have a fragment
Products ==
  {s \in 1..Len(nodes) :
     /\ nodes[s].kind \in {"Multiplication", "Inner"}
     /\ DictHas(tables.variable_symbols, SymbolId(s))}

\* C18 (sparse dispatch for Multiplication and Inner): in both sparse modes,
\* if left.evaluate_for_shape() is sparse the fragment calls a method of the
\* left operand's name on the right operand's name; otherwise, if
\* right.evaluate_for_shape() is sparse, it calls a method of the right
\* operand's name on the left operand's name; otherwise it is
\* "left * right".  In every case both names occur in the fragment.
SparseDispatch ==
  Compiled =>
    \A s \in Products :
      LET left == ChildVar(nodes, nodes[s].children[1])
          right == ChildVar(nodes, nodes[s].children[2])
          symbol_str == DictGet(tables.variable_symbols, SymbolId(s))
      IN /\ IF issparse(evaluate_for_shape(nodes, nodes[s].children[1]))
            THEN IsMethodCall(symbol_str, left, right)
            ELSE IF issparse(evaluate_for_shape(nodes, nodes[s].children[2]))
            THEN IsMethodCall(symbol_str, right, left)
            ELSE symbol_str = <<left, L(" * "), right>>
         /\ \E i \in 1..Len(symbol_str) : symbol_str[i] = left
         /\ \E i \in 1..Len(symbol_str) : symbol_str[i] = right

\* ----------------------------------------------------------------- C19
\* the kinds of node that find_symbols has a branch for
SupportedKinds ==
  {"Scalar", "Vector", "Matrix", "Function", "NumpyConcatenation", "SparseStack",
   "DomainConcatenation", "StateVector", "Time", "InputParameter"}
    \cup BinaryOperators \cup UnaryOperators

\* C19 (supported trees always compile): in either sparse mode find_symbols
\* raises nothing but NotImplementedError, and for a tree whose nodes are all
\* of supported kinds (a Division with a sparse left operand and a
\* StateVector whose mask selects no index included) it raises nothing and
\* leaves one fragment for each node visited that is not constant.
SupportedTreesCompile ==
  pc # "tree" =>
    /\ tables.exc.type \in {"", "NotImplementedError"}
    /\ (\A k \in 1..Len(nodes) : nodes[k].kind \in SupportedKinds) =>
         /\ tables.exc = NoExc
         /\ \A s \in Visited(nodes, Root) :
              ~is_constant(nodes, s) => Cardinality(FragmentEntries(s)) = 1

\* ----------------------------------------------------------------- C20
\* place a is encountered before place b: child order, then the order of the
\* domains within the child
EncounteredBefore(a, b) == a[1] < b[1] \/ (a[1] = b[1] /\ a[2] < b[2])

\* where the slice of place kj is among the sub-fragments of repetition i
EmittedAt(kj, i) ==
  LET nd == Cardinality(Places(nodes[Root].dc))
  IN CHOOSE p \in 1..nd : Text(SubFragments[i * nd + p]) = SliceText(kj, i)

\* C20 (tie-break of the domain order): two sub-fragments of one repetition
\* whose domains declare the same slice start are emitted in the order in
\* which they were encountered (child order, then domain order within the
\* child), whatever their text is.
DomainOrderTieBreak ==
  (Compiled /\ nodes[Root].kind = "DomainConcatenation") =>
    \A i \in 0..(nodes[Root].dc.npts - 1) :
      \A a, b \in Places(nodes[Root].dc) :
        (EncounteredBefore(a, b) /\ DeclaredStart(a, i) = DeclaredStart(b, i))
          => EmittedAt(a, i) < EmittedAt(b, i)

\* ----------------------------------------------------------------- C21
\* s.split(sep)
RECURSIVE SplitOn(_, _)
SplitOn(s, sep) ==
  IF ~Contains(s, sep) THEN <<s>>
  ELSE LET i == CHOOSE x \in Occurrences(s, sep) : \A z \in Occurrences(s, sep) : x <= z
       IN <<SubSeq(s, 1, i - 1)>> \o SplitOn(SubSeq(s, i + Len(sep), Len(s)), sep)

\* the operands and operators of an expression without parentheses, a view
\* being one operand
RECURSIVE MergeViews(_)
MergeViews(ts) ==
  IF ts = <<>> THEN <<>>
  ELSE IF ts[1] = "@view" /\ Len(ts) >= 2
  THEN <<"@view " \o ts[2]>> \o MergeViews(SubSeq(ts, 3, Len(ts)))
  ELSE <<ts[1]>> \o MergeViews(Tail(ts))
Tokens(text) == MergeViews(SplitOn(text, " "))

\* an operand that can be read: a view of one entry of y, the name of a
\* slot that has a value, the name of a constant of the tree, a digit
IsOperand(tok, env) ==
  \/ \E i \in 1..NY : tok = "@view y[" \o ToString(i) \o "]"
  \/ DictHas(env, tok)
  \/ \E c \in 1..Len(nodes) :
       /\ tok = id_to_julia_variable(SymbolId(c), TRUE)
       /\ is_constant(nodes, c)
       /\ Fold(nodes, c) = Sparse(OneByOne)
  \/ \E n \in 0..9 : tok = ToString(n)

\* the value of an operand; vectors have one entry and matrices one row
\* and one column, and the value is that entry
OperandValue(tok, env, y) ==
  IF \E i \in 1..NY : tok = "@view y[" \o ToString(i) \o "]"
  THEN y[CHOOSE i \in 1..NY : tok = "@view y[" \o ToString(i) \o "]"]
  ELSE IF DictHas(env, tok) THEN DictGet(env, tok)
  ELSE IF StartsWith(tok, "const_") THEN OneByOne[1][1]
  ELSE CHOOSE n \in 0..9 : tok = ToString(n)

ElementwiseOperators == {".+", ".-", ".*"}
Apply(op, a, b) ==
  CASE op = ".+" -> a + b
    [] op = ".-" -> a - b
    [] OTHER -> a * b

\* an expression that can be read: operands and elementwise operators in
\* turn
IsExpression(text, env) ==
  LET ts == Tokens(text)
  IN /\ Len(ts) % 2 = 1
     /\ \A i \in 1..Len(ts) :
          IF i % 2 = 1 THEN IsOperand(ts[i], env) ELSE ts[i] \in ElementwiseOperators

\* the value of an expression as julia reads it: .* binds tighter than .+
\* and .-, and operators of one level group from the left
RECURSIVE Factors(_, _, _, _)
Factors(acc, ts, env, y) ==
  IF ts = <<>> \/ ts[1] # ".*" THEN [v |-> acc, rest |-> ts]
  ELSE Factors(acc * OperandValue(ts[2], env, y), SubSeq(ts, 3, Len(ts)), env, y)

RECURSIVE Terms(_, _, _, _)
Terms(acc, ts, env, y) ==
  IF ts = <<>> THEN acc
  ELSE Terms(Apply(ts[1], acc,
                   Factors(OperandValue(ts[2], env, y), SubSeq(ts, 3, Len(ts)), env, y).v),
             Factors(OperandValue(ts[2], env, y), SubSeq(ts, 3, Len(ts)), env, y).rest,
             env, y)

ExpressionValue(text, env, y) ==
  Terms(Factors(OperandValue(Tokens(text)[1], env, y), Tail(Tokens(text)), env, y).v,
        Factors(OperandValue(Tokens(text)[1], env, y), Tail(Tokens(text)), env, y).rest,
        env, y)

\* a statement: the slot it writes, and the operands of a multiply-into
\* statement or the expression of an assignment
Statement(line) ==
  IF StartsWith(line, "mul!(")
  THEN LET parts == SplitOn(SubSeq(line, 6, Len(line) - 1), ", ")
       IN [mul |-> TRUE, target |-> parts[1], left |-> parts[2],
           right |-> IF Len(parts) = 3 THEN parts[3] ELSE ""]
  ELSE LET parts == SplitOn(line, " .= ")
       IN [mul |-> FALSE, target |-> parts[1], left |-> "",
           right |-> IF Len(parts) = 2 THEN parts[2] ELSE ""]

\* the slots after the statements, run in turn from the slots env; a
\* statement that cannot be read ends the run
RECURSIVE Run(_, _, _)
Run(lines, env, y) ==
  IF lines = <<>> THEN env
  ELSE LET st == Statement(Head(lines))
       IN IF ~IsExpression(st.right, env) \/ (st.mul /\ ~IsOperand(st.left, env))
          THEN env
          ELSE Run(Tail(lines),
                   DictSet(env, st.target,
                           IF st.mul
                           THEN OperandValue(st.left, env, y)
                                  * ExpressionValue(st.right, env, y)
                           ELSE ExpressionValue(st.right, env, y)),
                   y)

\* the statements of a fragment table when every fragment is emitted as its
\* own statement, in the order of the table
OwnStatements(variable_symbols) ==
  [i \in 1..Len(variable_symbols) |->
     LET julia_var == id_to_julia_variable(variable_symbols[i].k, FALSE)
         symbol_line == FormatValue(variable_symbols[i].v)
     IN IF Contains(symbol_line, " * ")
        THEN "mul!(" \o julia_var \o ", " \o Replace(symbol_line, " * ", ", ") \o ")"
        ELSE julia_var \o " .= " \o symbol_line]

\* the statements that the pass over the fragment table emits
EmittedStatements(variable_symbols) ==
  SelectSeq(SplitLines(JuliaWhile([tables EXCEPT !.variable_symbols = variable_symbols,
                                                 !.exc = NoExc]).var_str),
            LAMBDA line : line # "")

\* C21 (inlining preserves meaning): for every y, the statements emitted
\* after the inlining pass leave in the slot of the root the value that the
\* fragments leave there when each is emitted as its own assignment, in the
\* order of the table; a fragment a .+ b that is substituted into a later
\* fragment cache_x .* c keeps its grouping, (a .+ b) .* c.
InliningPreservesValue ==
  (pc = "compiled" /\ args.via = "get_julia_function" /\ returned.exc = NoExc) =>
    LET result_var == id_to_julia_variable(SymbolId(Root), FALSE)
    IN \A y \in States :
         (/\ DictHas(Run(OwnStatements(tables.variable_symbols), <<>>, y), result_var)
          /\ DictHas(Run(EmittedStatements(tables.variable_symbols), <<>>, y), result_var))
           => DictGet(Run(EmittedStatements(tables.variable_symbols), <<>>, y), result_var)
                = DictGet(Run(OwnStatements(tables.variable_symbols), <<>>, y), result_var)

\* ----------------------------------------------------------------- C22
\* the node of a key of the fragment table
NodeOf(symbol_id) == CHOOSE s \in 1..Len(nodes) : SymbolId(s) = symbol_id

\* the statements of the pass that write the slot of a key: assignments and
\* multiply-into statements
AssignmentsTo(symbol_id) ==
  {i \in 1..Len(EmittedStatements(tables.variable_symbols)) :
     StartsWith(EmittedStatements(tables.variable_symbols)[i],
                id_to_julia_variable(symbol_id, FALSE) \o " .= ")}
MultiplyIntos(symbol_id) ==
  {i \in 1..Len(EmittedStatements(tables.variable_symbols)) :
     StartsWith(EmittedStatements(tables.variable_symbols)[i],
                "mul!(" \o id_to_julia_variable(symbol_id, FALSE) \o ", ")}

\* the kinds whose fragment is a view or one elementwise operation
TrivialKinds ==
  {"StateVector", "Addition", "Subtraction", "Multiplication", "Division", "Inner"}

\* C22 (which fragments are inlined): the pass withholds a fragment from
\* the statements only if its node is a view or an elementwise addition,
\* subtraction, multiplication or division; the fragment of a function, a
\* power, a unary operator or a concatenation is emitted as an assignment
\* to its slot, also when trivial fragments were substituted into it.
WhichInlined ==
  (pc = "compiled" /\ args.via = "get_julia_function" /\ returned.exc = NoExc) =>
    \A i \in 1..Len(tables.variable_symbols) :
      LET symbol_id == tables.variable_symbols[i].k
          kind == nodes[NodeOf(symbol_id)].kind
      IN /\ (AssignmentsTo(symbol_id) \cup MultiplyIntos(symbol_id) = {})
              => kind \in TrivialKinds
         /\ kind \in {"Function", "Power"} \cup UnaryOperators \cup Concatenations
              => AssignmentsTo(symbol_id) # {}

\* ----------------------------------------------------------------- C23
\* the matrix multiplications of the tree that have a fragment
MatrixMultiplications ==
  {s \in 1..Len(nodes) :
     /\ nodes[s].kind = "MatrixMultiplication"
     /\ DictHas(tables.variable_symbols, SymbolId(s))}

\* the children of node s whose fragment is an elementwise operation
ElementwiseChildren(s) ==
  {c \in {nodes[s].children[k] : k \in 1..Len(nodes[s].children)} :
     nodes[c].kind \in TrivialKinds \ {"StateVector"} /\ ~is_constant(nodes, c)}

\* C23 (multiply-into guard): a trivial fragment that is not a view is
\* never substituted into the fragment of a matrix multiplication: the
\* multiply-into statement names the slot of such an operand.
MultiplyIntoGuard ==
  (pc = "compiled" /\ args.via = "get_julia_function" /\ returned.exc = NoExc) =>
    \A s \in MatrixMultiplications :
      \A i \in MultiplyIntos(SymbolId(s)) :
        \A c \in ElementwiseChildren(s) :
          LET st == Statement(EmittedStatements(tables.variable_symbols)[i])
          IN id_to_julia_variable(SymbolId(c), FALSE) \in {st.left, st.right}

\* ----------------------------------------------------------------- C24
\* the keys that the turns of the while loop pop, in turn
RECURSIVE PoppedKeys(_)
PoppedKeys(st) ==
  IF st.var_symbols = <<>> \/ st.exc # NoExc THEN <<>>
  ELSE <<Head(st.var_symbols).k>> \o PoppedKeys(PopItem(st))

\* C24 (progress of the inlining pass): for the fragment table of every
\* tree that find_symbols of Backend B has traversed without error, trees
\* with a concatenation after views included, the while loop of
\* get_julia_function pops the keys of the table in the order of their
\* insertion, each once, raises no error, and ends with the table empty
\* after as many turns as the table had entries.
PassProgress ==
  (pc = "compiled" /\ args.via = "get_julia_function" /\ tables.exc = NoExc) =>
    /\ returned.exc = NoExc
    /\ JuliaWhile(tables).var_symbols = <<>>
    /\ PoppedKeys([var_symbols |-> tables.variable_symbols, var_str |-> "", exc |-> NoExc])
         = DictKeys(tables.variable_symbols)

\* ----------------------------------------------------------------- C25
\* the declarations of cache slots in the text: the lines of the named
\* tuple cs that declare a cache_ name
SlotLines(julia_str) ==
  {i \in 1..Len(SplitLines(julia_str)) : StartsWith(SplitLines(julia_str)[i], "   cache_")}

\* the declaration of the slot of a key of the size table
SlotLine(symbol_id) ==
  "   " \o id_to_julia_variable(symbol_id, FALSE) \o " = zeros("
    \o ToString(DictGet(tables.variable_symbol_sizes, symbol_id)) \o "),"

\* the keys whose fragment the pass emitted as a statement
EmittedKeys ==
  {tables.variable_symbols[i].k : i \in 1..Len(tables.variable_symbols)}
    \cap {k \in Int : AssignmentsTo(k) \cup MultiplyIntos(k) # {}}

\* the text has the name at a place where the name ends: no digit follows
DigitStrings == {"0", "1", "2", "3", "4", "5", "6", "7", "8", "9"}
HasName(text, name) ==
  \E i \in Occurrences(text, name) :
    \/ i + Len(name) > Len(text)
    \/ SubSeq(text, i + Len(name), i + Len(name)) \notin DigitStrings

\* C25 (cache sizing): the text that get_julia_function returns declares a
\* slot cache_<id> = zeros(n) for exactly the fragments other than the
\* root's that were emitted as a statement, with n the length of the node
\* (the first extent of its shape); it declares none for the root and none
\* for an inlined fragment; and every slot named in the body of the
\* function, the root's apart, is declared.
CacheSizing ==
  (pc = "compiled" /\ args.via = "get_julia_function" /\ returned.exc = NoExc) =>
    LET lines == SplitLines(returned.julia_str)
        keys == {tables.variable_symbols[i].k : i \in 1..Len(tables.variable_symbols)}
    IN /\ \A k \in keys :
            /\ (\E i \in SlotLines(returned.julia_str) : lines[i] = SlotLine(k))
                 <=> (k # SymbolId(Root) /\ k \in EmittedKeys)
            /\ DictGet(tables.variable_symbol_sizes, k)
                 = shape(evaluate_for_shape(nodes, NodeOf(k)))[1]
       /\ Cardinality(SlotLines(returned.julia_str))
            = Cardinality(EmittedKeys \ {SymbolId(Root)})
       /\ \A k \in keys \ {SymbolId(Root)} :
            (\E j \in 1..Len(FunctionBody(returned.julia_str)) :
               HasName(FunctionBody(returned.julia_str)[j],
                       "c." \o id_to_julia_variable(k, FALSE)))
              => \E i \in SlotLines(returned.julia_str) : lines[i] = SlotLine(k)

\* ----------------------------------------------------------------- C30
\* the text has the name of the slot of key k, not as a part of a longer name
NamesSlot(text, k) == HasName(text, id_to_julia_variable(k, FALSE))

\* a fragment other than a list, as text
FragmentText(symbol_line) == IF symbol_line.ty = "str" THEN symbol_line.s ELSE ""

\* the keys of the fragments that are still in the table after key k, at
\* the time it is popped
LaterKeys(k) ==
  {tables.variable_symbols[j].k :
     j \in {i \in 1..Len(tables.variable_symbols) :
              \E h \in 1..(i - 1) : tables.variable_symbols[h].k = k}}

\* a statement of the pass reads the slot of key k: it names it as an
\* operand
ReadsSlot(k) ==
  \E j \in 1..Len(EmittedStatements(tables.variable_symbols)) :
    \/ NamesSlot(Statement(EmittedStatements(tables.variable_symbols)[j]).left, k)
    \/ NamesSlot(Statement(EmittedStatements(tables.variable_symbols)[j]).right, k)

\* C30 (names of two nodes are never confused): the rewrites that go by
\* the name of a slot touch the occurrences of that name only, also when
\* the name of one id is the beginning of the name of another.  When the
\* root is emitted, the slot of an emitted key that the fragment of a later
\* key reads is still read by a statement after the substitutions; and a
\* slot is declared only for a key whose own name the body has.
NamesNotConfused ==
  (pc = "compiled" /\ args.via = "get_julia_function" /\ returned.exc = NoExc) =>
    LET vs == tables.variable_symbols
        body == JoinStr("\n", FunctionBody(returned.julia_str))
    IN /\ SymbolId(Root) \in EmittedKeys =>
            \A i \in 1..Len(vs) :
              \A k \in EmittedKeys \ {SymbolId(Root)} :
                (vs[i].k \in LaterKeys(k) /\ NamesSlot(FragmentText(vs[i].v), k))
                  => ReadsSlot(k)
       /\ \A k \in {vs[i].k : i \in 1..Len(vs)} :
            (\E i \in SlotLines(returned.julia_str) :
               SplitLines(returned.julia_str)[i] = SlotLine(k))
              => NamesSlot(body, k)

\* ---------------------------------------------------------------- C26
\* a symbol of the tree whose fragment find_symbols stored (line 232): the
\* traversal reached it and its branch made a fragment
Reached(s) ==
  /\ s \in Below(nodes, Root)
  /\ ~is_constant(nodes, s)
  /\ nodes[s].kind # "Variable"
  /\ DictHas(tables.variable_symbols, SymbolId(s))

\* symbol.shape has two extents and the second is not 1
NotColumn(s) ==
  LET symbol_shape == shape(evaluate_for_shape(nodes, s))
  IN Len(symbol_shape) = 2 /\ symbol_shape[2] # 1

ByBackendB == pc = "compiled" /\ args.via \in {"to_julia", "get_julia_function"}

\* C26: when the traversal of to_julia or get_julia_function reaches a symbol
\* that is not constant, is not a Variable and whose shape has a second
\* extent other than 1, find_symbols fails with ValueError("expected column
\* vector") and the caller is given no source; when the traversal succeeds,
\* the fragment table and the size table have the same keys in the same order
ColumnCheck ==
  ByBackendB =>
    /\ (\E s \in 1..Len(nodes) : Reached(s) /\ NotColumn(s)) =>
         /\ tables.exc = Exc("ValueError", "expected column vector")
         /\ returned.exc = tables.exc
         /\ returned.julia_str = ""
    /\ tables.exc = NoExc =>
         DictKeys(tables.variable_symbols) = DictKeys(tables.variable_symbol_sizes)

\* get_julia_function has failed on a product that has as many columns as
\* its matrix
ColumnCheckWitness ==
  /\ ByBackendB
  /\ args.via = "get_julia_function"
  /\ nodes[Root].kind = "Multiplication"
  /\ Reached(Root) /\ NotColumn(Root)
  /\ tables.exc = Exc("ValueError", "expected column vector")
  /\ returned.julia_str = ""

\* ---------------------------------------------------------------- C27
ByBackendA == pc = "compiled" /\ args.via = "to_python"

\* the text of the fragment the compiling backend stored for symbol s
StoredText(s) ==
  LET symbol_line == DictGet(tables.variable_symbols, SymbolId(s))
  IN IF ByBackendA THEN Text(symbol_line) ELSE FragmentText(symbol_line)

\* the name the compiling backend gives a child
OperandName(child) ==
  IF ByBackendA THEN ChildVar(nodes, child).s ELSE JuliaChildVar(nodes, child)

\* the constants the compiling backend stored, and their names
StoredConstants == IF ByBackendA THEN tables.constant_values ELSE tables.constant_symbols
StoredConstantName(symbol_id) ==
  IF ByBackendA THEN id_to_python_variable(symbol_id, TRUE)
  ELSE id_to_julia_variable(symbol_id, TRUE)

\* what stands between the brackets of a text: two bounds, one number, or
\* the name of an index constant
Bound == 0..(NY + 1)
Brackets(a, b) == "[" \o ToString(a) \o ":" \o ToString(b) \o "]"
HasSlice(text) == \E a, b \in Bound : Contains(text, Brackets(a, b))
SliceOf(text) == CHOOSE ab \in Bound \X Bound : Contains(text, Brackets(ab[1], ab[2]))
HasNumber(text) == \E a \in Bound : Contains(text, "[" \o ToString(a) \o "]")
NumberOf(text) == CHOOSE a \in Bound : Contains(text, "[" \o ToString(a) \o "]")
NamedConstants(text) ==
  {i \in 1..Len(StoredConstants) :
     /\ Contains(text, "[" \o StoredConstantName(StoredConstants[i].k) \o "]")
     /\ StoredConstants[i].v.ty = "idx"}
NamedConstant(text) == StoredConstants[CHOOSE i \in NamedConstants(text) : TRUE].v.v

\* the elements of its operand a text selects, the first element being
\* number 0: python counts from 0 and leaves the stop out, julia counts from
\* 1 and takes the stop in
Selected(text) ==
  LET first == IF ByBackendA THEN 0 ELSE 1
      last(stop) == IF ByBackendA THEN stop - 1 ELSE stop
  IN IF HasSlice(text)
     THEN {p - first : p \in SliceOf(text)[1]..last(SliceOf(text)[2])}
     ELSE IF HasNumber(text) THEN {NumberOf(text) - first}
     ELSE IF NamedConstants(text) # {}
     THEN {NamedConstant(text)[j] - first : j \in 1..Len(NamedConstant(text))}
     ELSE {}

\* the elements the symbol stands for
Elements(s) ==
  IF nodes[s].kind = "Index" THEN nodes[s].lo..(nodes[s].hi - 1) ELSE nodes[s].mask

\* the text the claim gives for an Index and for a StateVector whose mask is
\* the run [i, i + k)
IndexText(s) ==
  LET operand == OperandName(nodes[s].children[1])
  IN IF ByBackendA THEN operand \o Brackets(nodes[s].lo, nodes[s].hi)
     ELSE operand \o Brackets(nodes[s].lo + 1, nodes[s].hi)
RunText(i, k) ==
  IF ByBackendA THEN "y" \o Brackets(i, i + k)
  ELSE IF k = 1 THEN "@view y[" \o ToString(i + 1) \o "]"
  ELSE "@view y" \o Brackets(i + 1, i + k)
IsRun(mask) == \E i \in 0..(NY - 1), k \in 1..NY : mask = i..(i + k - 1)

Sliced(s) ==
  /\ s \in 1..Len(nodes)
  /\ nodes[s].kind \in {"Index", "StateVector"}
  /\ DictHas(tables.variable_symbols, SymbolId(s))

\* C27: the fragment of an Index with bounds [s, e) is operand[s:e] in
\* Backend A and operand[s+1:e] in Backend B; that of a StateVector whose
\* mask is the run [i, i+k) is y[i:i+k] in Backend A and a view of
\* y[i+1:i+k], or of y[i+1] when k = 1, in Backend B; for a scattered mask
\* the fragment of Backend B names an index constant that holds each True
\* index plus one; and read in the convention of its backend (from 0 and
\* stop left out, from 1 and stop taken in) each fragment selects the
\* elements of the node, so both backends select the same ones
IndexConvention ==
  (ByBackendA \/ ByBackendB) =>
    \A s \in 1..Len(nodes) : Sliced(s) =>
      /\ nodes[s].kind = "Index" => StoredText(s) = IndexText(s)
      /\ nodes[s].kind = "StateVector" /\ IsRun(nodes[s].mask) =>
           \E i \in 0..(NY - 1), k \in 1..NY :
             nodes[s].mask = i..(i + k - 1) /\ StoredText(s) = RunText(i, k)
      /\ nodes[s].kind = "StateVector" /\ ~IsRun(nodes[s].mask) /\ ByBackendB =>
           /\ NamedConstants(StoredText(s)) # {}
           /\ NamedConstant(StoredText(s))
                = [j \in 1..Cardinality(nodes[s].mask) |-> Ascending(nodes[s].mask)[j] + 1]
      /\ Selected(StoredText(s)) = Elements(s)

\* Backend B has compiled an Index whose slice does not start at the first
\* element, of a view of the whole state vector
IndexConventionWitness ==
  /\ ByBackendB
  /\ nodes[Root].kind = "Index"
  /\ nodes[Root].lo = 1 /\ nodes[Root].hi = NY
  /\ nodes[nodes[Root].children[1]].kind = "StateVector"
  /\ Sliced(Root)
  /\ Selected(StoredText(Root)) = 1..(NY - 1)

\* ---------------------------------------------------------------- C28
Variables == {s \in 1..Len(nodes) : nodes[s].kind = "Variable"}
NoEntry(d, s) == ~DictHas(d, SymbolId(s))

\* C28: after to_julia or get_julia_function no Variable has an entry in the
\* fragment table, the size table or the constant table; the traversal of a
\* tree that is a Variable raises nothing and leaves the three tables empty;
\* and below another symbol the Variable is passed over: the entries of the
\* fragment table are those of the other symbols, in the order of the visit
VariableSkipped ==
  ByBackendB =>
    /\ \A s \in Variables :
         /\ NoEntry(tables.variable_symbols, s)
         /\ NoEntry(tables.variable_symbol_sizes, s)
         /\ NoEntry(tables.constant_symbols, s)
    /\ nodes[Root].kind = "Variable" =>
         /\ tables.exc = NoExc
         /\ tables.variable_symbols = <<>>
         /\ tables.variable_symbol_sizes = <<>>
         /\ tables.constant_symbols = <<>>
    /\ (Variables # {} /\ tables.exc = NoExc) =>
         DictKeys(tables.variable_symbols)
           = SelectSeq([s \in 1..Len(nodes) |-> SymbolId(s)],
                       LAMBDA id : /\ nodes[NodeOf(id)].kind # "Variable"
                                   /\ ~is_constant(nodes, NodeOf(id)))

\* to_julia has passed over a Variable that it visited after a state vector
\* and before their sum
VariableSkippedWitness ==
  /\ ByBackendB
  /\ args.via = "to_julia"
  /\ Len(nodes) = 3
  /\ nodes[1].kind = "StateVector" /\ nodes[2].kind = "Variable"
  /\ nodes[Root].children = <<1, 2>>
  /\ tables.exc = NoExc
  /\ DictKeys(tables.variable_symbols) = <<SymbolId(1), SymbolId(Root)>>

\* ---------------------------------------------------------------- C29
\* the lines of the assembled function that bind a constant, and those that
\* are the statement of a fragment
BindingLines == {j \in 1..Len(self.python_str) : IsBindingLine(self.python_str[j])}
StatementLines == {j \in 1..Len(self.python_str) : IsFragmentLine(self.python_str[j])}

\* the lines that bind the name of the constant of symbol_id
BindingsOf(symbol_id) ==
  {j \in BindingLines :
     Assigned(self.python_str[j]) = id_to_python_variable(symbol_id, TRUE)}

Assembled ==
  /\ pc \in {"evaluator", "evaluated"}
  /\ EvaluatorClass(self) \in {"EvaluatorPython", "EvaluatorJax"}

\* C29: in the function EvaluatorPython and EvaluatorJax assemble, the name
\* of the i-th key of the constant table is bound by one line, which reads
\* constants[i] (counted from 0), and the i-th entry of the evaluator's list
\* of constants is the value of that key; there are no other bindings; and
\* every binding stands before every statement of a fragment
PositionalBinding ==
  Assembled =>
    LET constants == tables.constant_values
    IN /\ Len(self.constants) = Len(constants)
       /\ \A i \in 1..Len(constants) :
            /\ Cardinality(BindingsOf(constants[i].k)) = 1
            /\ \A j \in BindingsOf(constants[i].k) :
                 self.python_str[j][4] = StrNum(i - 1)
            /\ self.constants[i] = constants[i].v
       /\ Cardinality(BindingLines) = Len(constants)
       /\ \A j \in BindingLines, f \in StatementLines : j < f

\* EvaluatorJax has assembled a function of three constants, one of them
\* the index array of a scattered view, and of several statements
PositionalBindingWitness ==
  /\ Assembled
  /\ EvaluatorClass(self) = "EvaluatorJax"
  /\ Len(tables.constant_values) = 3
  /\ \E i \in 1..3 : tables.constant_values[i].v.ty = "idx"
  /\ Cardinality(BindingLines) = 3
  /\ Cardinality(StatementLines) > 1
====
